---- MODULE Spec2Model ----
(***************************************************************************)
(* A model of VCTbot (src/main.py): the reminder store and its scheduler   *)
(* (reminder_check_task), and the results cache of get_valorant_results    *)
(* with its health counters and health check.                              *)
(*                                                                         *)
(* Time is in seconds.  Every handler is split exactly at its awaits (the  *)
(* only places where another coroutine of the single event loop can run).  *)
(***************************************************************************)
EXTENDS Integers, Sequences, FiniteSets, Bags, TLC

VARIABLES
    \* ---- reminder store and scheduler ----
    match_reminders,   \* table match_reminders: row i has id i (AUTOINCREMENT)
    clock,             \* the wall clock (datetime.now), seconds
    tick_pc,           \* where reminder_check_task is: idle, loop, fetch_user, send, sleep
    tick_reminders,    \* the list get_pending_reminders() returned to this tick
    tick_idx,          \* index of the reminder the for loop is at
    tick_now,          \* `now` read once at the start of the tick
    sent,              \* history: sent[id] = number of channel.send calls that delivered id
    attempted,         \* history: ids that entered the delivery branch in the current tick
    trouble,           \* history: trouble[id] = what went wrong delivering id, at any tick
    \* ---- results_cache (lines 63-71) and get_valorant_results ----
    recent_data,       \* None or a list of records
    upcoming_data,     \* None or a list of records
    team_data,         \* dict: team key -> list of records
    tournament_data,   \* dict: tournament key -> list of records
    timestamp,         \* None or the instant of the last storing fetch
    scraping_failures, \* the failure counter
    last_success,      \* None or an instant
    fetching,          \* bag of the calls suspended at the HTTP request (line 350)
    hc_pc,             \* where health_check_task is: idle, alert, probe, sleep
    fetched_at,        \* history: slot -> None or the instant read by the fetch that filled it
    failed_cycles,     \* history: failed fetch cycles since the last successful one
    last,              \* history: the last operation of the cache and what it returned
    \* ---- the pure functions of the program ----
    applied,           \* the last application of a pure function: function, input, output
    \* ---- the server configuration (table server_configs) and /config ----
    server_configs,    \* server id -> row, for the servers that have a row
    config_reply,      \* history: the last /config command and how it was answered
    \* ---- the views: MatchSelectView and ResultsPaginator ----
    select_reply,      \* history: the last selection in a MatchSelectView and its answer
    paginator,         \* the fields of the ResultsPaginator of the last command, or NoView
    page_reply         \* history: the last button press and how it was answered

remVars == <<match_reminders, tick_pc, tick_reminders, tick_idx, tick_now, sent, attempted,
             trouble>>

cacheVars == <<recent_data, upcoming_data, team_data, tournament_data, timestamp,
               scraping_failures, last_success, fetching, hc_pc, fetched_at,
               failed_cycles, last>>

pureVars == <<applied>>

cfgVars == <<server_configs, config_reply>>

viewVars == <<select_reply, paginator, page_reply>>

vars == <<clock, remVars, cacheVars, pureVars, cfgVars, viewVars>>

-----------------------------------------------------------------------------
(* Bounds of the model. *)
MaxReminders == 2
MaxTickClock == 1500

(* Program constants. *)
TickPeriod == 300
WindowBefore == 900
WindowAfter == 1800

(* The match times a user can select: an ISO string with its UTC offset, as *)
(* parse_match_time(...).isoformat() stores it (wall clock time + offset).  *)
(* The instants are wall - utcoffset: -900, -899, 900, 901, 1200.           *)
MatchTimes ==
    { [wall |-> -900, utcoffset |-> 0],
      [wall |-> 2701, utcoffset |-> 3600],
      [wall |-> 900,  utcoffset |-> 0],
      [wall |-> 4501, utcoffset |-> 3600],
      [wall |-> 1200, utcoffset |-> 0] }

-----------------------------------------------------------------------------
(* reminder_check_task, lines 737-740: fromisoformat gives an aware        *)
(* datetime; aware - aware subtracts the instants (wall - utcoffset); now   *)
(* is datetime.now(pytz.UTC), offset 0.                                    *)
TimeUntilMatch(match_time, now) == (match_time.wall - match_time.utcoffset) - now

(* a window test that leaves out the first boundary instant *)
DueForDelivery_StrictUpper(delta) == delta < WindowBefore /\ delta > -WindowAfter

(* line 743 *)
DueForDelivery(delta) == delta <= WindowBefore /\ delta > -WindowAfter

(* a SELECT that returns the first pending row only *)
get_pending_reminders_FirstOnly ==
    LET pending == SelectSeq(match_reminders, LAMBDA r : ~r.reminded)
    IN  IF pending = << >> THEN << >> ELSE <<pending[1]>>

(* get_pending_reminders: SELECT * WHERE reminded = 0, in rowid order *)
get_pending_reminders ==
    SelectSeq(match_reminders, LAMBDA r : ~r.reminded)

(* an UPDATE that forgets its WHERE clause for the rows it does not mean *)
mark_reminder_as_sent_OnlyThis(store, id) ==
    [i \in 1..Len(store) |-> [store[i] EXCEPT !.reminded = (store[i].id = id)]]

(* an UPDATE that flips the flag instead of setting it *)
mark_reminder_as_sent_Toggle(store, id) ==
    [i \in 1..Len(store) |-> IF store[i].id = id
                             THEN [store[i] EXCEPT !.reminded = ~@]
                             ELSE store[i]]

(* mark_reminder_as_sent: UPDATE ... SET reminded = 1 WHERE id = ? *)
mark_reminder_as_sent(store, id) ==
    [i \in 1..Len(store) |-> IF store[i].id = id
                             THEN [store[i] EXCEPT !.reminded = TRUE]
                             ELSE store[i]]

(* The store after a call of mark_reminder_as_sent that either commits or  *)
(* raises (sqlite3 error) before the commit.                               *)
MarkOutcomes(id) == { mark_reminder_as_sent(match_reminders, id), match_reminders }

(* History of a reminder's delivery: "target" once its channel or user was *)
(* not found, else "other" once a lookup or a send failed otherwise.        *)
Troubled(id, what) ==
    [trouble EXCEPT ![id] = IF @ = "target" THEN "target" ELSE what]

(* an exception that leaves the for loop instead of ending one iteration *)
NextIteration_LeavesLoop == tick_pc' = "sleep" /\ tick_idx' = 0

(* `continue` / the end of one iteration of the for loop (line 734) *)
NextIteration ==
    IF tick_idx + 1 > Len(tick_reminders)
    THEN tick_pc' = "sleep" /\ tick_idx' = 0
    ELSE tick_pc' = "loop" /\ tick_idx' = tick_idx + 1

-----------------------------------------------------------------------------
(* a rowid that is the number of rows: the id of the last row is given again *)
NextRowId_CountsRows(store) == IF store = << >> THEN 1 ELSE Len(store)

(* line 1690, INTEGER PRIMARY KEY AUTOINCREMENT: one more than the largest  *)
(* rowid the table ever held; no row is ever deleted, so that is row Len    *)
NextRowId(store) == Len(store) + 1

(* an INSERT that is executed twice *)
InsertReminder_Twice(store, match_time, now) ==
    store \o << [id |-> NextRowId(store), match_time |-> match_time, reminded |-> FALSE,
                 created_at |-> now],
                [id |-> NextRowId(store) + 1, match_time |-> match_time, reminded |-> FALSE,
                 created_at |-> now] >>

(* lines 1775-1780: INSERT with reminded = False; the id is the next rowid *)
InsertReminder(store, match_time, now) ==
    Append(store, [id |-> NextRowId(store), match_time |-> match_time, reminded |-> FALSE,
                   created_at |-> now])

(* add_match_reminder, called for a match whose time parsed *)
add_match_reminder ==
    /\ Len(match_reminders) < MaxReminders
    /\ \E mt \in MatchTimes :
          match_reminders' = InsertReminder(match_reminders, mt, clock)
    /\ sent' = Append(sent, 0)
    /\ trouble' = Append(trouble, "none")
    /\ UNCHANGED <<clock, tick_pc, tick_reminders, tick_idx, tick_now, attempted, cacheVars, pureVars, cfgVars, viewVars>>

(* reminder_check_task, lines 722-732: read the pending rows and `now` *)
TickStart ==
    /\ tick_pc = "idle"
    /\ tick_reminders' = get_pending_reminders
    /\ attempted' = {}
    /\ IF get_pending_reminders = << >>
       THEN tick_pc' = "sleep" /\ tick_idx' = 0 /\ UNCHANGED tick_now
       ELSE tick_pc' = "loop" /\ tick_idx' = 1 /\ tick_now' = clock
    /\ UNCHANGED <<match_reminders, clock, sent, trouble, cacheVars, pureVars, cfgVars, viewVars>>

(* lines 735-749: one iteration up to its first await *)
ExamineReminder ==
    /\ tick_pc = "loop"
    /\ LET reminder == tick_reminders[tick_idx]
           time_until_match == TimeUntilMatch(reminder.match_time, tick_now)
       IN  IF DueForDelivery(time_until_match)
           THEN /\ attempted' = attempted \cup {reminder.id}
                /\ \/ \* bot.get_channel returns None: mark and continue
                      /\ match_reminders' \in MarkOutcomes(reminder.id)
                      /\ trouble' = Troubled(reminder.id, "target")
                      /\ NextIteration
                   \/ \* channel found: await bot.fetch_user
                      /\ tick_pc' = "fetch_user"
                      /\ UNCHANGED <<match_reminders, tick_idx, trouble>>
           ELSE /\ NextIteration
                /\ UNCHANGED <<match_reminders, attempted, trouble>>
    /\ UNCHANGED <<clock, tick_reminders, tick_now, sent, cacheVars, pureVars, cfgVars, viewVars>>

(* lines 752-756 and 787: bot.fetch_user returns a user; returns None      *)
(* (the branch of line 753); raises discord.NotFound, which is how          *)
(* discord.py reports a user id that does not exist; or raises              *)
(* discord.HTTPException (the request failed).  Both exceptions go to the   *)
(* except clause of line 787, which logs and marks nothing.                 *)
FetchUserReturns ==
    /\ tick_pc = "fetch_user"
    /\ LET id == tick_reminders[tick_idx].id
       IN  \/ /\ tick_pc' = "send"
              /\ UNCHANGED <<match_reminders, tick_idx, trouble>>
           \/ /\ match_reminders' \in MarkOutcomes(id)
              /\ trouble' = Troubled(id, "target")
              /\ NextIteration
           \/ /\ trouble' = Troubled(id, "target")
              /\ NextIteration
              /\ UNCHANGED match_reminders
           \/ /\ trouble' = Troubled(id, "other")
              /\ NextIteration
              /\ UNCHANGED match_reminders
    /\ UNCHANGED <<clock, tick_reminders, tick_now, sent, attempted, cacheVars, pureVars, cfgVars, viewVars>>

(* lines 782-788: channel.send delivers or raises; then mark_reminder_as_sent *)
SendReturns ==
    /\ tick_pc = "send"
    /\ LET id == tick_reminders[tick_idx].id
       IN  \/ /\ sent' = [sent EXCEPT ![id] = @ + 1]
              /\ match_reminders' \in MarkOutcomes(id)
              /\ NextIteration
              /\ UNCHANGED trouble
           \/ /\ trouble' = Troubled(id, "other")
              /\ NextIteration
              /\ UNCHANGED <<match_reminders, sent>>
    /\ UNCHANGED <<clock, tick_reminders, tick_now, attempted, cacheVars, pureVars, cfgVars, viewVars>>

(* tasks.loop(minutes=5): the next iteration starts 300 s after this one *)
Sleep ==
    /\ tick_pc = "sleep"
    /\ clock + TickPeriod <= MaxTickClock
    /\ clock' = clock + TickPeriod
    /\ tick_pc' = "idle"
    /\ UNCHANGED <<match_reminders, tick_reminders, tick_idx, tick_now, sent, attempted,
                   trouble, cacheVars, pureVars, cfgVars, viewVars>>

-----------------------------------------------------------------------------
(* The results cache, get_valorant_results and the health check.           *)

(* Bounds of the cache model. *)
MaxInFlight == 2
MaxClock == 310
MaxWaits == 2
MaxCacheFailures == 2
MaxFailures == 6

(* Program constants. *)
CacheTTL == 300
FetchTimeout == 10
AlertThreshold == 5
ProbeThreshold == 3
ProbeLimit == 1

(* Python's None and a present value. *)
None == << >>
Some(x) == <<x>>

(* The counts a caller asks for. *)
MaxLimit == 2
Limits == 1..MaxLimit

(* Extracted match records (the fields the filters read). *)
m1 == [team1 |-> "Sentinels", team2 |-> "Cloud9", event |-> "VCT Americas"]
m2 == [team1 |-> "Fnatic", team2 |-> "Liquid", event |-> "Challengers EMEA"]

(* A match element of the page: the record its extraction gives, or an     *)
(* element whose extraction raises (caught at line 510).                    *)
Element(record) == [record |-> record, raises |-> FALSE]
e_broken == [record |-> m1, raises |-> TRUE]

(* What the site can serve: a page with no match element, or pages of them. *)
Docs == { << >>, <<Element(m1)>>, <<Element(m2), Element(m1)>>, <<e_broken, Element(m2)>> }

(* str.lower() on the strings of the model *)
Lower(str) ==
    CASE str = "Sentinels" -> "sentinels"
      [] str = "Cloud9" -> "cloud9"
      [] str = "Fnatic" -> "fnatic"
      [] str = "Liquid" -> "liquid"
      [] str = "VCT" -> "vct"
      [] str = "VCT Americas" -> "vct americas"
      [] str = "Challengers EMEA" -> "challengers emea"
      [] OTHER -> str

(* Python's `sub in text` on the strings of the model *)
Contains(sub, text) ==
    \/ sub = text
    \/ <<sub, text>> \in { <<"vct", "vct americas">> }

(* The argument shapes the bot's commands use (lines 1101, 1151, 1214, 1278, 713) *)
CommandArgs ==
    { [upcoming |-> FALSE, team |-> "", tournament |-> ""],
      [upcoming |-> TRUE,  team |-> "", tournament |-> ""],
      [upcoming |-> FALSE, team |-> "Sentinels", tournament |-> ""],
      [upcoming |-> FALSE, team |-> "", tournament |-> "VCT"] }

(* Every shape the signature (line 301) allows with one filter at most *)
SignatureArgs ==
    CommandArgs \cup
    { [upcoming |-> TRUE, team |-> "Sentinels", tournament |-> ""],
      [upcoming |-> TRUE, team |-> "", tournament |-> "VCT"] }

(* The two shapes of the timed model: the unfiltered recent list and one team *)
CoreArgs ==
    { [upcoming |-> FALSE, team |-> "", tournament |-> ""],
      [upcoming |-> FALSE, team |-> "Sentinels", tournament |-> ""] }

(* The cache slot a call reads on a hit (lines 318-335) *)
SlotOf(args) ==
    IF args.tournament # "" THEN <<"tournament", Lower(args.tournament)>>
    ELSE IF args.team # "" THEN <<"team", Lower(args.team)>>
    ELSE IF args.upcoming THEN <<"upcoming", "">>
    ELSE <<"recent", "">>

Slots == { SlotOf(a) : a \in SignatureArgs }

(* a slice that ignores the requested count *)
Slice_WholeList(lst, limit) == lst

(* lst[:limit] *)
Slice(lst, limit) == SubSeq(lst, 1, IF limit < Len(lst) THEN limit ELSE Len(lst))

(* line 316: the freshness test on the one timestamp of the cache *)
CacheFresh(now) == timestamp # None /\ now - timestamp[1] < CacheTTL

(* lines 316-335: the cached list a call is answered with, or None (miss) *)
CacheLookup(args, limit, now) ==
    IF ~CacheFresh(now) THEN None
    ELSE IF args.tournament # ""
         THEN IF Lower(args.tournament) \in DOMAIN tournament_data
              THEN Some(Slice(tournament_data[Lower(args.tournament)], limit))
              ELSE None
    ELSE IF args.team # ""
         THEN IF Lower(args.team) \in DOMAIN team_data
              THEN Some(Slice(team_data[Lower(args.team)], limit))
              ELSE None
    ELSE IF args.upcoming /\ upcoming_data # None
         THEN Some(Slice(upcoming_data[1], limit))
    ELSE IF ~args.upcoming /\ recent_data # None
         THEN Some(Slice(recent_data[1], limit))
    ELSE None

(* an extraction loop that gives up at the first element that raises *)
RECURSIVE ExtractResults_StopsAtFailure(_, _)
ExtractResults_StopsAtFailure(match_elements, limit) ==
    IF match_elements = << >> \/ limit = 0 \/ Head(match_elements).raises THEN << >>
    ELSE <<Head(match_elements).record>>
         \o ExtractResults_StopsAtFailure(Tail(match_elements), limit - 1)

(* lines 399-511: for match in match_elements[:limit], append the record;   *)
(* an element whose extraction raises is logged and appends nothing         *)
ExtractResults(match_elements, limit) ==
    LET kept == SelectSeq(Slice(match_elements, limit), LAMBDA el : ~el.raises)
    IN  [i \in 1..Len(kept) |-> kept[i].record]

(* lines 518-521 *)
TournamentFilter(results, tournament_key) ==
    SelectSeq(results, LAMBDA r : Contains(tournament_key, Lower(r.event)))

(* lines 531-535 *)
TeamFilter(results, team_key) ==
    SelectSeq(results, LAMBDA r : \/ Contains(team_key, Lower(r.team1))
                                  \/ Contains(team_key, Lower(r.team2)))

(* lines 513-539: the list the call returns *)
FilteredResults(call, doc) ==
    LET results == ExtractResults(doc, call.limit)
    IN  IF call.tournament # "" THEN TournamentFilter(results, Lower(call.tournament))
        ELSE IF call.team # "" THEN TeamFilter(results, Lower(call.team))
        ELSE results

(* lines 553-574: the except clauses.  ClientResponseError and             *)
(* ClientConnectorError match the first two clauses.  Any other exception   *)
(* reaches `except aiohttp.ClientTimeout`, which names a class that is not  *)
(* an exception: Python raises TypeError there, out of the function.        *)
FailureKinds ==
    {"ClientResponseError", "ClientConnectorError", "TimeoutError", "ClientError", "Exception"}
CaughtKinds == {"ClientResponseError", "ClientConnectorError"}

(* Values of the history variable `last`: the last operation of the cache  *)
(* (op), the call it belongs to, what that call returned, and the match     *)
(* elements of the page it stored from (doc).                               *)
NoCall == [limit |-> 0, upcoming |-> FALSE, team |-> "", tournament |-> "",
           current_time |-> 0, probe |-> FALSE]
NoRet == [kind |-> "", list |-> << >>]
RetList(lst) == [kind |-> "list", list |-> lst]
RetNone == [kind |-> "None", list |-> << >>]
RetRaised == [kind |-> "TypeError", list |-> << >>]
Step(op, call, ret, failure) ==
    [op |-> op, call |-> call, ret |-> ret, failure |-> failure, doc |-> << >>]

RecentArgs == [upcoming |-> FALSE, team |-> "", tournament |-> ""]

MakeCall(args, limit, probe) ==
    [limit |-> limit, upcoming |-> args.upcoming, team |-> args.team,
     tournament |-> args.tournament, current_time |-> clock, probe |-> probe]

(* lines 314-353: a call up to its return from the cache ("hit") or up to   *)
(* its await of the HTTP request ("begin")                                  *)
EnterCall(args, limit, probe, how) ==
    LET call == MakeCall(args, limit, probe)
        cached == CacheLookup(args, limit, clock)
    IN  IF cached # None
        THEN /\ how = "hit"
             /\ fetching' = fetching
             /\ last' = Step("hit", call, RetList(cached[1]), "")
        ELSE /\ how = "begin"
             /\ BagCardinality(fetching) < MaxInFlight
             /\ fetching' = fetching (+) SetToBag({call})
             /\ last' = Step("begin", call, NoRet, "")

(* A command calls get_valorant_results *)
get_valorant_results(argShapes, limits) ==
    /\ \E args \in argShapes, limit \in limits, how \in {"hit", "begin"} :
          EnterCall(args, limit, FALSE, how)
    /\ UNCHANGED <<clock, remVars, pureVars, cfgVars, viewVars, recent_data, upcoming_data, team_data, tournament_data,
                   timestamp, scraping_failures, last_success, hc_pc, fetched_at,
                   failed_cycles>>

(* The health task resumes when its probe returns. *)
ProbeReturns(call) == IF call.probe THEN hc_pc' = "sleep" ELSE hc_pc' = hc_pc

(* lines 351-395: the response arrives, the page holds no match element:    *)
(* return [] at line 395, before any bookkeeping                            *)
FetchFindsNothing ==
    /\ \E call \in BagToSet(fetching) :
          /\ fetching' = fetching (-) SetToBag({call})
          /\ ProbeReturns(call)
          /\ last' = Step("empty", call, RetList(<< >>), "")
    /\ failed_cycles' = 0
    /\ UNCHANGED <<clock, remVars, pureVars, cfgVars, viewVars, recent_data, upcoming_data, team_data, tournament_data,
                   timestamp, scraping_failures, last_success, fetched_at>>

(* lines 351-551: the response arrives with match elements: extract,       *)
(* filter, store, bookkeeping, return                                       *)
FetchStores ==
    /\ \E call \in BagToSet(fetching), doc \in Docs \ {<< >>} :
          LET results == FilteredResults(call, doc)
          IN  /\ fetching' = fetching (-) SetToBag({call})
              /\ ProbeReturns(call)
              /\ tournament_data' =
                    IF call.tournament # ""
                    THEN [k \in DOMAIN tournament_data \cup {Lower(call.tournament)} |->
                             IF k = Lower(call.tournament) THEN results
                             ELSE tournament_data[k]]
                    ELSE tournament_data
              /\ team_data' =
                    IF call.tournament = "" /\ call.team # ""
                    THEN [k \in DOMAIN team_data \cup {Lower(call.team)} |->
                             IF k = Lower(call.team) THEN results ELSE team_data[k]]
                    ELSE team_data
              /\ upcoming_data' = IF call.upcoming THEN Some(results) ELSE upcoming_data
              /\ recent_data' =
                    IF ~call.upcoming /\ call.team = "" /\ call.tournament = ""
                    THEN Some(results) ELSE recent_data
              /\ timestamp' = Some(call.current_time)
              /\ last_success' = Some(call.current_time)
              /\ fetched_at' = [s \in Slots |->
                                   IF s = SlotOf(call) THEN Some(call.current_time)
                                   ELSE fetched_at[s]]
              /\ last' = [Step("stored", call, RetList(results), "") EXCEPT !.doc = doc]
    /\ scraping_failures' = 0
    /\ failed_cycles' = 0
    /\ UNCHANGED <<clock, remVars, pureVars, cfgVars, viewVars>>

(* a failure path that also invalidates the cache *)
FetchFails_DropsTimestamp(cap) ==
    /\ scraping_failures < cap
    /\ failed_cycles < cap
    /\ \E call \in BagToSet(fetching), kind \in FailureKinds :
          /\ kind = "TimeoutError" => clock - call.current_time >= FetchTimeout
          /\ fetching' = fetching (-) SetToBag({call})
          /\ ProbeReturns(call)
          /\ IF kind \in CaughtKinds
             THEN /\ scraping_failures' = scraping_failures + 1
                  /\ last' = Step("failed", call, RetNone, kind)
             ELSE /\ scraping_failures' = scraping_failures
                  /\ last' = Step("failed", call, RetRaised, kind)
    /\ failed_cycles' = failed_cycles + 1
    /\ timestamp' = None
    /\ UNCHANGED <<clock, remVars, pureVars, cfgVars, viewVars, recent_data, upcoming_data, team_data,
                   tournament_data, last_success, fetched_at>>

(* lines 347-353 and 553-574: the request or the parse raises *)
FetchFails(cap) ==
    /\ scraping_failures < cap
    /\ failed_cycles < cap
    /\ \E call \in BagToSet(fetching), kind \in FailureKinds :
          /\ kind = "TimeoutError" => clock - call.current_time >= FetchTimeout
          /\ fetching' = fetching (-) SetToBag({call})
          /\ ProbeReturns(call)
          /\ IF kind \in CaughtKinds
             THEN /\ scraping_failures' = scraping_failures + 1
                  /\ last' = Step("failed", call, RetNone, kind)
             ELSE /\ scraping_failures' = scraping_failures
                  /\ last' = Step("failed", call, RetRaised, kind)
    /\ failed_cycles' = failed_cycles + 1
    /\ UNCHANGED <<clock, remVars, pureVars, cfgVars, viewVars, recent_data, upcoming_data, team_data, tournament_data,
                   timestamp, last_success, fetched_at>>

(* Time passes while a request is in flight: at most the 10 s of its        *)
(* timeout.  At most MaxWaits such waits follow each pause.                 *)
WaitForResponse ==
    /\ fetching # EmptyBag
    /\ \A call \in BagToSet(fetching) : clock = call.current_time
    /\ (clock % (CacheTTL - FetchTimeout)) \div FetchTimeout < MaxWaits
    /\ clock + FetchTimeout <= MaxClock
    /\ clock' = clock + FetchTimeout
    /\ UNCHANGED <<remVars, cacheVars, pureVars, cfgVars, viewVars>>

(* Time passes between commands, no request in flight. *)
TimePasses ==
    /\ fetching = EmptyBag
    /\ clock + (CacheTTL - FetchTimeout) <= MaxClock
    /\ clock' = clock + (CacheTTL - FetchTimeout)
    /\ UNCHANGED <<remVars, cacheVars, pureVars, cfgVars, viewVars>>

(* lines 711-713: after check_scraping_health, probe with limit=1 when the  *)
(* counter is at least 3                                                    *)
ProbeDecision ==
    IF scraping_failures >= ProbeThreshold
    THEN \E how \in {"hit", "begin"} :
            /\ EnterCall(RecentArgs, ProbeLimit, TRUE, how)
            /\ hc_pc' = IF how = "hit" THEN "sleep" ELSE "probe"
    ELSE /\ hc_pc' = "sleep"
         /\ last' = Step("no_probe", NoCall, NoRet, "")
         /\ UNCHANGED fetching

(* health_check_task (lines 705-717) with check_scraping_health (688-703):  *)
(* below the alert threshold check_scraping_health returns without an await *)
health_check_task ==
    /\ hc_pc = "idle"
    /\ IF scraping_failures >= AlertThreshold
       THEN /\ hc_pc' = "alert"
            /\ last' = Step("alert", NoCall, NoRet, "")
            /\ UNCHANGED fetching
       ELSE ProbeDecision
    /\ UNCHANGED <<clock, remVars, pureVars, cfgVars, viewVars, recent_data, upcoming_data, team_data, tournament_data,
                   timestamp, scraping_failures, last_success, fetched_at, failed_cycles>>

(* lines 691-703: application_info and owner.send have returned (or send    *)
(* raised and was logged); health_check_task goes on at line 711            *)
HealthAlertDone ==
    /\ hc_pc = "alert"
    /\ ProbeDecision
    /\ UNCHANGED <<clock, remVars, pureVars, cfgVars, viewVars, recent_data, upcoming_data, team_data, tournament_data,
                   timestamp, scraping_failures, last_success, fetched_at, failed_cycles>>

InitCache ==
    /\ recent_data = None
    /\ upcoming_data = None
    /\ team_data = << >>
    /\ tournament_data = << >>
    /\ timestamp = None
    /\ scraping_failures = 0
    /\ last_success = None
    /\ fetching = EmptyBag
    /\ hc_pc = "idle"
    /\ fetched_at = [s \in Slots |-> None]
    /\ failed_cycles = 0
    /\ last = Step("init", NoCall, NoRet, "")

-----------------------------------------------------------------------------
(* The pure functions of the program, each applied once to an input drawn  *)
(* from a bounded set; `applied` records the input and the output.          *)

NoApplication == [fn |-> "", input |-> << >>, output |-> << >>]

NotApplied == applied = NoApplication

Apply(fn, input, output) ==
    /\ applied' = [fn |-> fn, input |-> input, output |-> output]
    /\ UNCHANGED <<clock, remVars, cacheVars, cfgVars, viewVars>>

(* The stores mark_reminder_as_sent can find: rows 1..n in rowid order, each *)
(* pending or delivered.                                                     *)
Stores ==
    UNION { [1..n -> BOOLEAN] : n \in 0..MaxReminders }

StoreOf(flags) ==
    [i \in 1..Len(flags) |->
        [id |-> i, match_time |-> [wall |-> 900, utcoffset |-> 0],
         reminded |-> flags[i], created_at |-> 0]]

(* mark_reminder_as_sent(id) called twice in a row on the same id; the id   *)
(* may be one the table does not hold (the UPDATE then matches no row).     *)
MarkTwice ==
    /\ NotApplied
    /\ \E flags \in Stores, id \in 1..(MaxReminders + 1) :
          LET store == StoreOf(flags)
              once == mark_reminder_as_sent(store, id)
              twice == mark_reminder_as_sent(once, id)
          IN  Apply("mark_reminder_as_sent", [store |-> store, id |-> id],
                    [once |-> once, twice |-> twice])

-----------------------------------------------------------------------------
(* The locator of get_valorant_results, lines 355-395.  A document is the   *)
(* sequence of sibling nodes of the listing; a node has a tag name ("" for  *)
(* a text node), a class, an href and a text.                               *)

MaxDocLen == 5

(* An href is split as the code splits it: href.split('/') gives the empty  *)
(* string before the leading '/' and then the path segments; a segment      *)
(* split('-') gives its parts.  rooted = href.startswith('/').              *)
NoHref == [rooted |-> FALSE, segs |-> << >>]
Href(segs) == [rooted |-> TRUE, segs |-> segs]

n_header == [name |-> "div", class |-> "", href |-> NoHref, text |-> "Today"]
n_card   == [name |-> "a", class |-> "match-item",
             href |-> Href(<< <<"123">>, <<"sen", "vs", "c9">> >>), text |-> "Sentinels"]
n_link   == [name |-> "a", class |-> "",
             href |-> Href(<< <<"456", "fnc", "vs", "tl">> >>), text |-> "Fnatic"]
n_team   == [name |-> "a", class |-> "",
             href |-> Href(<< <<"team">>, <<"12345">> >>), text |-> "Liquid"]
n_ext    == [name |-> "a", class |-> "",
             href |-> [rooted |-> FALSE, segs |-> << <<"https:">>, <<"123">> >>],
             text |-> "Cloud9"]
n_ago    == [name |-> "a", class |-> "",
             href |-> Href(<< <<"abc1">>, <<"x">> >>), text |-> "2h ago"]
n_text   == [name |-> "", class |-> "", href |-> NoHref, text |-> "vs"]

Nodes == {n_header, n_card, n_link, n_team, n_ext, n_ago, n_text}

Documents == UNION { [1..n -> Nodes] : n \in 0..MaxDocLen }

(* str.isdigit() on the strings of the model *)
IsDigit(str) == str \in {"1", "2", "123", "456", "12345"}

(* lines 366-368: the text ends with Today or Yesterday, or contains 'ago' *)
HeaderLike(text) == text \in {"Today", "Yesterday", "2h ago"}

(* isinstance(current, type(header)): a Tag, not a NavigableString *)
IsTag(node) == node.name # ""

(* line 357: soup.select('a.match-item, a.wf-module-item'), document order *)
MatchCards(doc) ==
    SelectSeq(doc, LAMBDA n : n.name = "a" /\ n.class \in {"match-item", "wf-module-item"})

(* lines 365-368: the positions of the date headers, in document order *)
DateHeaders(doc) ==
    { i \in 1..Len(doc) : doc[i].name = "div" /\ HeaderLike(doc[i].text) }

(* lines 375-378: where the sibling walk that starts after position h stops *)
WalkEnd(doc, h) ==
    LET stops == { j \in (h+1)..Len(doc) : IsTag(doc[j]) /\ HeaderLike(doc[j].text) }
    IN  IF stops = {} THEN Len(doc) + 1
        ELSE CHOOSE j \in stops : \A k \in stops : j <= k

(* lines 373-383: the links with a rooted href between a header and the     *)
(* next header-like tag                                                     *)
WalkFrom(doc, h) ==
    SelectSeq(SubSeq(doc, h + 1, WalkEnd(doc, h) - 1),
              LAMBDA n : n.name = "a" /\ n.href.rooted)

(* the first (up to) three elements of a set of positions, ascending *)
RECURSIVE FirstPositions(_, _)
FirstPositions(set, count) ==
    IF set = {} \/ count = 0 THEN << >>
    ELSE LET lo == CHOOSE i \in set : \A k \in set : i <= k
         IN  <<lo>> \o FirstPositions(set \ {lo}, count - 1)

HeaderCap == 3

(* lines 372-383: for header in date_headers[:3], append while walking *)
RECURSIVE WalkAll(_, _)
WalkAll(doc, headers) ==
    IF headers = << >> THEN << >>
    ELSE WalkFrom(doc, Head(headers)) \o WalkAll(doc, Tail(headers))

DateHeaderWalk(doc) == WalkAll(doc, FirstPositions(DateHeaders(doc), HeaderCap))

(* lines 388-391: every link whose href is rooted and whose first path      *)
(* segment, split at '-', has a part made of digits only                    *)
UrlPattern(doc) ==
    SelectSeq(doc, LAMBDA n :
        /\ n.name = "a"
        /\ n.href.rooted
        /\ Len(n.href.segs) + 1 > 1
        /\ \E x \in 1..Len(n.href.segs[1]) : IsDigit(n.href.segs[1][x]))

(* a locator that goes on to the date headers although it has match cards *)
LocateStep2_NoShortCircuit(doc, match_elements) ==
    match_elements \o DateHeaderWalk(doc)

(* a locator whose last resort looks at the match cards only *)
LocateStep3_IgnoresWalk(doc, match_elements) ==
    IF MatchCards(doc) = << >> THEN UrlPattern(doc) ELSE match_elements

(* lines 356-360 *)
LocateStep1(doc) ==
    IF MatchCards(doc) # << >> THEN MatchCards(doc) ELSE << >>

(* lines 363-383 *)
LocateStep2(doc, match_elements) ==
    IF match_elements = << >> THEN match_elements \o DateHeaderWalk(doc)
    ELSE match_elements

(* lines 386-391 *)
LocateStep3(doc, match_elements) ==
    IF match_elements = << >> THEN UrlPattern(doc) ELSE match_elements

(* lines 355-391: match_elements when the code reaches line 393 *)
Locate(doc) == LocateStep3(doc, LocateStep2(doc, LocateStep1(doc)))

LocateDocument ==
    /\ NotApplied
    /\ \E doc \in Documents : Apply("locate", doc, Locate(doc))

-----------------------------------------------------------------------------
(* The per-block extraction of get_valorant_results, lines 403-507.  A      *)
(* block is what the code reads of a candidate element: the texts of the    *)
(* elements its selectors find, and all_text, its stripped strings.         *)

(* len(str) on the strings of the model *)
StrLen(str) ==
    CASE str = "" -> 0
      [] str \in {"a", "1", "2", "?"} -> 1
      [] str = "vs" -> 2
      [] str \in {"NRG", "TBD"} -> 3
      [] str = "Live" -> 4
      [] str = "18:00" -> 5
      [] str = "Cloud9" -> 6
      [] str \in {"Sentinels", "Completed"} -> 9
      [] str = "VCT Americas" -> 12
      [] str = "Playoffs-VCT Americas" -> 21
      [] OTHER -> 7

(* ":" in str *)
HasColon(str) == str = "18:00"

(* str.count(' ') <= 1: every string of the model has one space at most *)
FewSpaces(str) == TRUE

(* str.count(':') == 1 and str.count(' ') <= 1 (line 449) *)
LooksLikeTime(str) == HasColon(str) /\ FewSpaces(str)

(* an en dash or a hyphen in str *)
HasSeparator(str) == str = "Playoffs-VCT Americas"

(* str.split(separator, 1), both parts stripped *)
SplitOnce(str) ==
    IF str = "Playoffs-VCT Americas" THEN <<"Playoffs", "VCT Americas">> ELSE <<str>>

(* keyword in text *)
KeywordIn(keyword, text) == text = keyword

status_keywords == <<"Completed", "Live", "Upcoming", "Scheduled">>

TeamElementTexts ==
    { << >>, <<"Sentinels">>, <<"Sentinels", "Cloud9">>, <<"", "Cloud9">> }
ScoreElementTexts ==
    { << >>, <<"2">>, <<"2", "1">>, <<"", "1">> }
EventElementTexts == { None, Some("VCT Americas"), Some("Playoffs-VCT Americas") }
TimeElementTexts == { None, Some("18:00") }
AllTexts ==
    { << >>,
      <<"Sentinels", "Cloud9">>,
      <<"18:00", "Sentinels", "2", "Cloud9", "1", "Completed", "Playoffs-VCT Americas", "a">>,
      <<"18:00", "Sentinels", "2", "Cloud9", "1", "Live">>,
      <<"18:00", "Sentinels", "vs", "Cloud9", "?", "Live", "2", "1">>,
      <<"Sentinels", "2", "Cloud9", "1", "Completed", "VCT Americas", "a", "a", "a", "a">>,
      <<"vs", "NRG", "a", "Cloud9", "1", "Live", "NRG", "VCT Americas", "Completed",
        "Playoffs-VCT Americas", "a">>,
      <<"a", "1", "a", "a", "2", "a", "a", "a", "a", "a">>,
      <<"Sentinels", "Cloud9", "Completed", "VCT Americas", "1", "a">> }

(* The texts of a sequence of elements, the empty ones left out. *)
SlotTexts(texts) == { texts[i] : i \in 1..Len(texts) } \ {""}

(* line 403: all_text holds the stripped strings of the whole block, so the *)
(* text of every element a selector finds in the block is among them.       *)
Blocks ==
    { b \in [team_elements : TeamElementTexts, score_elements : ScoreElementTexts,
             event_element : EventElementTexts, time_element : TimeElementTexts,
             all_text : AllTexts] :
        SlotTexts(b.team_elements) \cup SlotTexts(b.score_elements)
          \cup SlotTexts(b.event_element) \cup SlotTexts(b.time_element)
            \subseteq SlotTexts(b.all_text) }

(* lines 407-413: the default values *)
Sentinels ==
    [team1 |-> "Unknown", team2 |-> "Unknown", score1 |-> "?", score2 |-> "?",
     event_name |-> "Unknown Event", event_stage |-> "", match_time |-> "TBD"]

(* lines 424-425: get_text(strip=True) or "?" *)
ScoreText(text) == IF text = "" THEN "?" ELSE text

(* lines 430-436 and 481-487: the event text split into stage and name;    *)
(* without a separator only the name is assigned                            *)
WithEvent(cur, event_text) ==
    IF HasSeparator(event_text)
    THEN [cur EXCEPT !.event_stage = SplitOnce(event_text)[1],
                     !.event_name = SplitOnce(event_text)[2]]
    ELSE [cur EXCEPT !.event_name = event_text]

(* lines 416-441: pass 1, the CSS selectors *)
Pass1(block, upcoming) ==
    LET c1 == IF Len(block.team_elements) >= 2
              THEN [Sentinels EXCEPT !.team1 = block.team_elements[1],
                                     !.team2 = block.team_elements[2]]
              ELSE Sentinels
        c2 == IF Len(block.score_elements) >= 2
              THEN [c1 EXCEPT !.score1 = ScoreText(block.score_elements[1]),
                              !.score2 = ScoreText(block.score_elements[2])]
              ELSE c1
        c3 == IF block.event_element # None
              THEN WithEvent(c2, block.event_element[1])
              ELSE c2
    IN  IF upcoming /\ block.time_element # None
        THEN [c3 EXCEPT !.match_time = block.time_element[1]]
        ELSE c3

(* all_text[i].isdigit() or all_text[i] == "?" *)
ScoreLike(str) == IsDigit(str) \/ str = "?"

(* line 457: len(text) > 2 and not text.isdigit() and not ":" in text *)
TeamLike(str) == StrLen(str) > 2 /\ ~IsDigit(str) /\ ~HasColon(str)

(* lines 449-453: [time, team1, score1, team2, score2, ...] (0-based 1..4) *)
PatternTime(all_text, cur) ==
    [cur EXCEPT !.team1 = all_text[2],
                !.score1 = IF ScoreLike(all_text[3]) THEN all_text[3] ELSE @,
                !.team2 = all_text[4],
                !.score2 = IF ScoreLike(all_text[5]) THEN all_text[5] ELSE @]

(* lines 456-465: the first team-like text among the first four, then the  *)
(* three texts after it                                                     *)
PatternScan(all_text, cur) ==
    LET found == { k \in 1..4 : TeamLike(all_text[k]) }
    IN  IF found = {} THEN cur
        ELSE LET k == CHOOSE i \in found : \A j \in found : i <= j
             IN  [cur EXCEPT
                    !.team1 = all_text[k],
                    !.score1 = IF k + 1 <= Len(all_text) /\ ScoreLike(all_text[k + 1])
                               THEN all_text[k + 1] ELSE @,
                    !.team2 = IF /\ k + 2 <= Len(all_text)
                                 /\ StrLen(all_text[k + 2]) > 2
                                 /\ ~IsDigit(all_text[k + 2])
                              THEN all_text[k + 2] ELSE @,
                    !.score2 = IF k + 3 <= Len(all_text) /\ ScoreLike(all_text[k + 3])
                               THEN all_text[k + 3] ELSE @]

(* lines 446-465: pass 2 for the teams and scores *)
Pass2Teams(all_text, cur) ==
    IF (cur.team1 = "Unknown" \/ cur.team2 = "Unknown") /\ Len(all_text) >= 6
    THEN IF LooksLikeTime(all_text[1]) THEN PatternTime(all_text, cur)
         ELSE IF Len(all_text) >= 10 /\ \E x \in 1..5 : IsDigit(all_text[x])
              THEN PatternScan(all_text, cur)
              ELSE cur
    ELSE cur

(* lines 471-475: the index of the first text holding the keyword, 0 if none *)
KeywordIndex(all_text, keyword) ==
    LET hits == { i \in 1..Len(all_text) : KeywordIn(keyword, all_text[i]) }
    IN  IF hits = {} THEN 0 ELSE CHOOSE i \in hits : \A j \in hits : i <= j

(* lines 477-488: the first of the (up to) four texts after the keyword     *)
(* that is longer than 3, not a number and has no ':'                       *)
AfterKeyword(all_text, k, cur) ==
    LET last_j == IF k + 4 < Len(all_text) THEN k + 4 ELSE Len(all_text)
        found == { j \in (k + 1)..last_j :
                     /\ StrLen(all_text[j]) > 3
                     /\ ~IsDigit(all_text[j])
                     /\ ~HasColon(all_text[j]) }
    IN  IF k # 0 /\ k + 1 < Len(all_text) /\ found # {}
        THEN WithEvent(cur, all_text[CHOOSE j \in found : \A i \in found : j <= i])
        ELSE cur

(* lines 470-488: for keyword in status_keywords (no break of this loop) *)
RECURSIVE KeywordLoop(_, _, _)
KeywordLoop(all_text, keywords, cur) ==
    IF keywords = << >> THEN cur
    ELSE KeywordLoop(all_text, Tail(keywords),
                     AfterKeyword(all_text, KeywordIndex(all_text, Head(keywords)), cur))

(* lines 468-488: pass 2 for the event *)
Pass2Event(all_text, cur) ==
    IF cur.event_name = "Unknown Event"
    THEN KeywordLoop(all_text, status_keywords, cur)
    ELSE cur

(* lines 491-495: pass 2 for the time of an upcoming match *)
Pass2Time(all_text, upcoming, cur) ==
    LET found == { i \in 1..(IF Len(all_text) < 3 THEN Len(all_text) ELSE 3) :
                     HasColon(all_text[i]) /\ FewSpaces(all_text[i]) }
    IN  IF upcoming /\ cur.match_time = "TBD" /\ found # {}
        THEN [cur EXCEPT !.match_time = all_text[CHOOSE i \in found : \A j \in found : i <= j]]
        ELSE cur

(* lines 403-507: the record of one block *)
ExtractBlock(block, upcoming) ==
    LET cur == Pass2Time(block.all_text, upcoming,
                   Pass2Event(block.all_text,
                       Pass2Teams(block.all_text, Pass1(block, upcoming))))
    IN  [team1 |-> cur.team1, team2 |-> cur.team2,
         score1 |-> cur.score1, score2 |-> cur.score2,
         event |-> cur.event_name, stage |-> cur.event_stage,
         time |-> IF upcoming THEN cur.match_time ELSE ""]

ExtractOneBlock ==
    /\ NotApplied
    /\ \E block \in Blocks, upcoming \in BOOLEAN :
          Apply("extract", [block |-> block, upcoming |-> upcoming],
                ExtractBlock(block, upcoming))

-----------------------------------------------------------------------------
(* The name resolver, lines 73-129 and 226-277.  A string is the sequence  *)
(* of its characters; "a_acute" and "u_umlaut" stand for the two accented   *)
(* letters of the tables.                                                   *)

(* lines 74-87 *)
TEAM_ALIASES ==
    { [alias |-> <<"c", "9">>,
       name |-> <<"c", "l", "o", "u", "d", "9">>],
      [alias |-> <<"1", "0", "0", "t">>,
       name |-> <<"1", "0", "0", " ", "t", "h", "i", "e", "v", "e", "s">>],
      [alias |-> <<"s", "e", "n">>,
       name |-> <<"s", "e", "n", "t", "i", "n", "e", "l", "s">>],
      [alias |-> <<"e", "g">>,
       name |-> <<"e", "v", "i", "l", " ", "g", "e", "n", "i", "u", "s", "e", "s">>],
      [alias |-> <<"t", "l">>,
       name |-> <<"l", "i", "q", "u", "i", "d">>],
      [alias |-> <<"f", "n", "c">>,
       name |-> <<"f", "n", "a", "t", "i", "c">>],
      [alias |-> <<"p", "r", "x">>,
       name |-> <<"p", "a", "p", "e", "r", " ", "r", "e", "x">>],
      [alias |-> <<"g", "e", "n", "g">>,
       name |-> <<"g", "e", "n", ".", "g">>],
      [alias |-> <<"l", "e", "v", "i", "a", "t", "a", "n">>,
       name |-> <<"l", "e", "v", "i", "a", "t", "a_acute", "n">>],
      [alias |-> <<"l", "e", "v", "i">>,
       name |-> <<"l", "e", "v", "i", "a", "t", "a_acute", "n">>],
      [alias |-> <<"k", "r", "u_umlaut">>,
       name |-> <<"k", "r", "u">>],
      [alias |-> <<"k", "r", "u", "e">>,
       name |-> <<"k", "r", "u">>] }

(* lines 90-107: the keys of TEAM_COLORS, in the order of the dict *)
TEAM_COLORS ==
    << <<"s", "e", "n", "t", "i", "n", "e", "l", "s">>,
       <<"c", "l", "o", "u", "d", "9">>,
       <<"f", "n", "a", "t", "i", "c">>,
       <<"l", "i", "q", "u", "i", "d">>,
       <<"1", "0", "0", " ", "t", "h", "i", "e", "v", "e", "s">>,
       <<"n", "r", "g">>,
       <<"e", "v", "i", "l", " ", "g", "e", "n", "i", "u", "s", "e", "s">>,
       <<"g", "2">>,
       <<"f", "a", "z", "e">>,
       <<"d", "r", "x">>,
       <<"p", "a", "p", "e", "r", " ", "r", "e", "x">>,
       <<"t", "1">>,
       <<"g", "e", "n", ".", "g">>,
       <<"l", "o", "u", "d">>,
       <<"l", "e", "v", "i", "a", "t", "a_acute", "n">>,
       <<"k", "r", "u">> >>

(* lines 110-119 *)
TOURNAMENT_ALIASES ==
    { [alias |-> <<"v", "c", "t">>,
       name |-> <<"v", "c", "t">>],
      [alias |-> <<"m", "a", "s", "t", "e", "r", "s">>,
       name |-> <<"m", "a", "s", "t", "e", "r", "s">>],
      [alias |-> <<"c", "h", "a", "m", "p", "s">>,
       name |-> <<"c", "h", "a", "m", "p", "i", "o", "n", "s">>],
      [alias |-> <<"g", "c">>,
       name |-> <<"g", "a", "m", "e", " ", "c", "h", "a", "n", "g", "e", "r", "s">>],
      [alias |-> <<"g", "a", "m", "e", "c", "h", "a", "n", "g", "e", "r", "s">>,
       name |-> <<"g", "a", "m", "e", " ", "c", "h", "a", "n", "g", "e", "r", "s">>],
      [alias |-> <<"c", "h", "a", "l", "l", "e", "n", "g", "e", "r", "s">>,
       name |-> <<"c", "h", "a", "l", "l", "e", "n", "g", "e", "r", "s">>],
      [alias |-> <<"c", "h", "a", "l">>,
       name |-> <<"c", "h", "a", "l", "l", "e", "n", "g", "e", "r", "s">>],
      [alias |-> <<"a", "s", "c">>,
       name |-> <<"a", "s", "c", "e", "n", "s", "i", "o", "n">>] }

(* lines 122-129: the keys of TOURNAMENT_COLORS, in the order of the dict *)
TOURNAMENT_COLORS ==
    << <<"v", "c", "t">>,
       <<"m", "a", "s", "t", "e", "r", "s">>,
       <<"c", "h", "a", "m", "p", "i", "o", "n", "s">>,
       <<"a", "s", "c", "e", "n", "s", "i", "o", "n">>,
       <<"g", "a", "m", "e", " ", "c", "h", "a", "n", "g", "e", "r", "s">>,
       <<"c", "h", "a", "l", "l", "e", "n", "g", "e", "r", "s">> >>

(* The inputs a user types for a team and for a tournament. *)
TeamInputs ==
    { << >>,
      <<"c", "9">>,
      <<"C", "9">>,
      <<"s", "e", "n">>,
      <<"s", "e", "n", "t", "i", "n", "e", "l">>,
      <<"S", "e", "n", "t", "i", "n", "e", "l", "s">>,
      <<"l", "o", "u", "d">>,
      <<"t", "l">>,
      <<"l", "e", "v", "i">>,
      <<"g", "2">>,
      <<"e">>,
      <<"x", "y", "z", "z", "y", "1", "2", "3">>,
      <<"X", "Y", "Z", "Z", "Y", "1", "2", "3">>,
      <<"s", "e", "n", "t", "i", "n", "e", "l", "z">>,
      <<"f", "n", "a", "t", "i", "k">> }

TournamentInputs ==
    { << >>,
      <<"v", "c", "t">>,
      <<"V", "C", "T">>,
      <<"c", "h", "a", "m", "p", "s">>,
      <<"c", "h", "a", "l">>,
      <<"g", "c">>,
      <<"c", "h", "a", "l", "l", "e", "n", "g", "e", "r">>,
      <<"M", "a", "s", "t", "e", "r", "s">>,
      <<"m", "a", "s", "t", "r", "s">>,
      <<"x", "y", "z", "z", "y", "1", "2", "3">> }

(* c.lower() for the characters of the inputs *)
LowerChar(c) ==
    CASE c = "C" -> "c"
      [] c = "D" -> "d"
      [] c = "H" -> "h"
      [] c = "I" -> "i"
      [] c = "M" -> "m"
      [] c = "N" -> "n"
      [] c = "S" -> "s"
      [] c = "T" -> "t"
      [] c = "U" -> "u"
      [] c = "V" -> "v"
      [] c = "X" -> "x"
      [] c = "Y" -> "y"
      [] c = "Z" -> "z"
      [] OTHER -> c

(* str.lower() *)
LowerCase(str) == [i \in 1..Len(str) |-> LowerChar(str[i])]

(* sub in text, on strings *)
IsSubstring(sub, text) ==
    \E i \in 0..(Len(text) - Len(sub)) : SubSeq(text, i + 1, i + Len(sub)) = sub

FuzzyCutoff == 80

(* fuzzywuzzy's WRatio of a lowercased input and a key, for the inputs of   *)
(* the model that reach the fuzzy step: <<input, key, score>>               *)
FuzzyScores ==
    { <<<<"x", "y", "z", "z", "y", "1", "2", "3">>, <<"s", "e", "n", "t", "i", "n", "e", "l", "s">>, 0>>,
      <<<<"x", "y", "z", "z", "y", "1", "2", "3">>, <<"c", "l", "o", "u", "d", "9">>, 0>>,
      <<<<"x", "y", "z", "z", "y", "1", "2", "3">>, <<"f", "n", "a", "t", "i", "c">>, 0>>,
      <<<<"x", "y", "z", "z", "y", "1", "2", "3">>, <<"l", "i", "q", "u", "i", "d">>, 0>>,
      <<<<"x", "y", "z", "z", "y", "1", "2", "3">>, <<"1", "0", "0", " ", "t", "h", "i", "e", "v", "e", "s">>, 11>>,
      <<<<"x", "y", "z", "z", "y", "1", "2", "3">>, <<"n", "r", "g">>, 0>>,
      <<<<"x", "y", "z", "z", "y", "1", "2", "3">>, <<"e", "v", "i", "l", " ", "g", "e", "n", "i", "u", "s", "e", "s">>, 0>>,
      <<<<"x", "y", "z", "z", "y", "1", "2", "3">>, <<"g", "2">>, 45>>,
      <<<<"x", "y", "z", "z", "y", "1", "2", "3">>, <<"f", "a", "z", "e">>, 22>>,
      <<<<"x", "y", "z", "z", "y", "1", "2", "3">>, <<"d", "r", "x">>, 30>>,
      <<<<"x", "y", "z", "z", "y", "1", "2", "3">>, <<"p", "a", "p", "e", "r", " ", "r", "e", "x">>, 12>>,
      <<<<"x", "y", "z", "z", "y", "1", "2", "3">>, <<"t", "1">>, 45>>,
      <<<<"x", "y", "z", "z", "y", "1", "2", "3">>, <<"g", "e", "n", ".", "g">>, 0>>,
      <<<<"x", "y", "z", "z", "y", "1", "2", "3">>, <<"l", "o", "u", "d">>, 0>>,
      <<<<"x", "y", "z", "z", "y", "1", "2", "3">>, <<"l", "e", "v", "i", "a", "t", "a_acute", "n">>, 0>>,
      <<<<"x", "y", "z", "z", "y", "1", "2", "3">>, <<"k", "r", "u">>, 0>>,
      <<<<"s", "e", "n", "t", "i", "n", "e", "l", "z">>, <<"s", "e", "n", "t", "i", "n", "e", "l", "s">>, 89>>,
      <<<<"s", "e", "n", "t", "i", "n", "e", "l", "z">>, <<"c", "l", "o", "u", "d", "9">>, 20>>,
      <<<<"s", "e", "n", "t", "i", "n", "e", "l", "z">>, <<"f", "n", "a", "t", "i", "c">>, 45>>,
      <<<<"s", "e", "n", "t", "i", "n", "e", "l", "z">>, <<"l", "i", "q", "u", "i", "d">>, 22>>,
      <<<<"s", "e", "n", "t", "i", "n", "e", "l", "z">>, <<"1", "0", "0", " ", "t", "h", "i", "e", "v", "e", "s">>, 10>>,
      <<<<"s", "e", "n", "t", "i", "n", "e", "l", "z">>, <<"n", "r", "g">>, 30>>,
      <<<<"s", "e", "n", "t", "i", "n", "e", "l", "z">>, <<"e", "v", "i", "l", " ", "g", "e", "n", "i", "u", "s", "e", "s">>, 18>>,
      <<<<"s", "e", "n", "t", "i", "n", "e", "l", "z">>, <<"g", "2">>, 0>>,
      <<<<"s", "e", "n", "t", "i", "n", "e", "l", "z">>, <<"f", "a", "z", "e">>, 26>>,
      <<<<"s", "e", "n", "t", "i", "n", "e", "l", "z">>, <<"d", "r", "x">>, 0>>,
      <<<<"s", "e", "n", "t", "i", "n", "e", "l", "z">>, <<"p", "a", "p", "e", "r", " ", "r", "e", "x">>, 22>>,
      <<<<"s", "e", "n", "t", "i", "n", "e", "l", "z">>, <<"t", "1">>, 45>>,
      <<<<"s", "e", "n", "t", "i", "n", "e", "l", "z">>, <<"g", "e", "n", ".", "g">>, 36>>,
      <<<<"s", "e", "n", "t", "i", "n", "e", "l", "z">>, <<"l", "o", "u", "d">>, 30>>,
      <<<<"s", "e", "n", "t", "i", "n", "e", "l", "z">>, <<"l", "e", "v", "i", "a", "t", "a_acute", "n">>, 25>>,
      <<<<"s", "e", "n", "t", "i", "n", "e", "l", "z">>, <<"k", "r", "u">>, 0>>,
      <<<<"f", "n", "a", "t", "i", "k">>, <<"s", "e", "n", "t", "i", "n", "e", "l", "s">>, 45>>,
      <<<<"f", "n", "a", "t", "i", "k">>, <<"c", "l", "o", "u", "d", "9">>, 0>>,
      <<<<"f", "n", "a", "t", "i", "k">>, <<"f", "n", "a", "t", "i", "c">>, 83>>,
      <<<<"f", "n", "a", "t", "i", "k">>, <<"l", "i", "q", "u", "i", "d">>, 17>>,
      <<<<"f", "n", "a", "t", "i", "k">>, <<"1", "0", "0", " ", "t", "h", "i", "e", "v", "e", "s">>, 30>>,
      <<<<"f", "n", "a", "t", "i", "k">>, <<"n", "r", "g">>, 30>>,
      <<<<"f", "n", "a", "t", "i", "k">>, <<"e", "v", "i", "l", " ", "g", "e", "n", "i", "u", "s", "e", "s">>, 30>>,
      <<<<"f", "n", "a", "t", "i", "k">>, <<"g", "2">>, 0>>,
      <<<<"f", "n", "a", "t", "i", "k">>, <<"f", "a", "z", "e">>, 45>>,
      <<<<"f", "n", "a", "t", "i", "k">>, <<"d", "r", "x">>, 0>>,
      <<<<"f", "n", "a", "t", "i", "k">>, <<"p", "a", "p", "e", "r", " ", "r", "e", "x">>, 15>>,
      <<<<"f", "n", "a", "t", "i", "k">>, <<"t", "1">>, 45>>,
      <<<<"f", "n", "a", "t", "i", "k">>, <<"g", "e", "n", ".", "g">>, 18>>,
      <<<<"f", "n", "a", "t", "i", "k">>, <<"l", "o", "u", "d">>, 0>>,
      <<<<"f", "n", "a", "t", "i", "k">>, <<"l", "e", "v", "i", "a", "t", "a_acute", "n">>, 31>>,
      <<<<"f", "n", "a", "t", "i", "k">>, <<"k", "r", "u">>, 45>>,
      <<<<"m", "a", "s", "t", "r", "s">>, <<"v", "c", "t">>, 30>>,
      <<<<"m", "a", "s", "t", "r", "s">>, <<"m", "a", "s", "t", "e", "r", "s">>, 92>>,
      <<<<"m", "a", "s", "t", "r", "s">>, <<"c", "h", "a", "m", "p", "i", "o", "n", "s">>, 30>>,
      <<<<"m", "a", "s", "t", "r", "s">>, <<"a", "s", "c", "e", "n", "s", "i", "o", "n">>, 45>>,
      <<<<"m", "a", "s", "t", "r", "s">>, <<"g", "a", "m", "e", " ", "c", "h", "a", "n", "g", "e", "r", "s">>, 45>>,
      <<<<"m", "a", "s", "t", "r", "s">>, <<"c", "h", "a", "l", "l", "e", "n", "g", "e", "r", "s">>, 35>>,
      <<<<"x", "y", "z", "z", "y", "1", "2", "3">>, <<"v", "c", "t">>, 0>>,
      <<<<"x", "y", "z", "z", "y", "1", "2", "3">>, <<"m", "a", "s", "t", "e", "r", "s">>, 0>>,
      <<<<"x", "y", "z", "z", "y", "1", "2", "3">>, <<"c", "h", "a", "m", "p", "i", "o", "n", "s">>, 0>>,
      <<<<"x", "y", "z", "z", "y", "1", "2", "3">>, <<"a", "s", "c", "e", "n", "s", "i", "o", "n">>, 0>>,
      <<<<"x", "y", "z", "z", "y", "1", "2", "3">>, <<"g", "a", "m", "e", " ", "c", "h", "a", "n", "g", "e", "r", "s">>, 0>>,
      <<<<"x", "y", "z", "z", "y", "1", "2", "3">>, <<"c", "h", "a", "l", "l", "e", "n", "g", "e", "r", "s">>, 0>> }

FuzzyScore(query, key) ==
    (CHOOSE row \in FuzzyScores : row[1] = query /\ row[2] = key)[3]

(* the index of the first key with the best score *)
BestKey(query, keys) ==
    CHOOSE k \in 1..Len(keys) :
        \A j \in 1..Len(keys) :
            \/ FuzzyScore(query, keys[j]) < FuzzyScore(query, keys[k])
            \/ FuzzyScore(query, keys[j]) = FuzzyScore(query, keys[k]) /\ k <= j

(* a fuzzy step that accepts the best key whatever its score *)
ExtractOne_AnyScore(query, keys) == Some(keys[BestKey(query, keys)])

(* lines 244 and 271: process.extractOne(query, keys, score_cutoff=80):     *)
(* the first key of the best score, if that score is at least the cutoff    *)
ExtractOne(query, keys) ==
    LET best == BestKey(query, keys)
    IN  IF FuzzyScore(query, keys[best]) >= FuzzyCutoff THEN Some(keys[best]) ELSE None

(* lines 234 and 261: key in ALIASES *)
AliasHit(table, key) == \E entry \in table : entry.alias = key

(* lines 236 and 263: ALIASES[key] *)
AliasValue(table, key) == (CHOOSE entry \in table : entry.alias = key).name

(* lines 239-241 and 266-268: the first key, in dict order, that equals the *)
(* input or contains it; None when there is none                            *)
FirstContaining(keys, lowered) ==
    LET hits == { k \in 1..Len(keys) : lowered = keys[k] \/ IsSubstring(lowered, keys[k]) }
    IN  IF hits = {} THEN None
        ELSE Some(keys[CHOOSE k \in hits : \A j \in hits : k <= j])

(* a fall-through that returns the lowercased input *)
Unresolved_Lowered(input, lowered) == lowered

(* lines 250 and 277: return the original input *)
Unresolved(input, lowered) == input

(* lines 226-250 *)
resolve_team_name(team_input) ==
    IF team_input = << >> THEN team_input
    ELSE LET team_lower == LowerCase(team_input)
         IN  IF AliasHit(TEAM_ALIASES, team_lower)
             THEN AliasValue(TEAM_ALIASES, team_lower)
             ELSE IF FirstContaining(TEAM_COLORS, team_lower) # None
             THEN FirstContaining(TEAM_COLORS, team_lower)[1]
             ELSE IF ExtractOne(team_lower, TEAM_COLORS) # None
             THEN ExtractOne(team_lower, TEAM_COLORS)[1]
             ELSE Unresolved(team_input, team_lower)

(* lines 253-277 *)
resolve_tournament_name(tournament_input) ==
    IF tournament_input = << >> THEN tournament_input
    ELSE LET tournament_lower == LowerCase(tournament_input)
         IN  IF AliasHit(TOURNAMENT_ALIASES, tournament_lower)
             THEN AliasValue(TOURNAMENT_ALIASES, tournament_lower)
             ELSE IF FirstContaining(TOURNAMENT_COLORS, tournament_lower) # None
             THEN FirstContaining(TOURNAMENT_COLORS, tournament_lower)[1]
             ELSE IF ExtractOne(tournament_lower, TOURNAMENT_COLORS) # None
             THEN ExtractOne(tournament_lower, TOURNAMENT_COLORS)[1]
             ELSE Unresolved(tournament_input, tournament_lower)

ResolveTeam ==
    /\ NotApplied
    /\ \E team_input \in TeamInputs :
          Apply("resolve_team_name", team_input, resolve_team_name(team_input))

ResolveTournament ==
    /\ NotApplied
    /\ \E tournament_input \in TournamentInputs :
          Apply("resolve_tournament_name", tournament_input,
                resolve_tournament_name(tournament_input))

(* A user types a canonical key itself. *)
ResolveCanonicalKey ==
    /\ NotApplied
    /\ \/ \E k \in 1..Len(TEAM_COLORS) :
             Apply("resolve_team_name", TEAM_COLORS[k], resolve_team_name(TEAM_COLORS[k]))
       \/ \E k \in 1..Len(TOURNAMENT_COLORS) :
             Apply("resolve_tournament_name", TOURNAMENT_COLORS[k],
                   resolve_tournament_name(TOURNAMENT_COLORS[k]))

-----------------------------------------------------------------------------
(* The /config command (server_config, lines 1497-1583) and the table       *)
(* server_configs (lines 1678-1685, 1710-1768).  server_config calls        *)
(* update_server_config before its only await on the storing paths, so one  *)
(* command is one step of the store.                                        *)

Servers == {"guild1", "guild2"}

(* The setting names a user types. *)
SettingInputs ==
    {"default_count", "Default_Count", "timezone", "announcement_channel", "colour"}

(* setting.lower() on the setting names of the model *)
SettingLower(setting) ==
    CASE setting = "Default_Count" -> "default_count"
      [] OTHER -> setting

(* The values a user types, as strings of characters. *)
ConfigValues ==
    { <<"4">>, <<"5">>, <<"2", "0">>, <<"2", "1">>, <<" ", "1", "_", "0", " ">>,
      <<"-", "5">>, <<"7", ".", "5">>,
      <<"u", "t", "c">>, <<"M", "a", "r", "s">>,
      <<"<", "#", "4", "2", ">">> }

(* The channels of the guild (interaction.guild.get_channel finds these). *)
GuildChannels == { <<"4", "2">> }

(* str.strip() for the blank of the model *)
StripLeft(str) ==
    LET blanks == { i \in 0..Len(str) : \A j \in 1..i : str[j] = " " }
        n == CHOOSE i \in blanks : \A j \in blanks : j <= i
    IN  SubSeq(str, n + 1, Len(str))

StripRight(str) ==
    LET blanks == { i \in 0..Len(str) : \A j \in (Len(str) - i + 1)..Len(str) : str[j] = " " }
        n == CHOOSE i \in blanks : \A j \in blanks : j <= i
    IN  SubSeq(str, 1, Len(str) - n)

Strip(str) == StripRight(StripLeft(str))

DigitChars == {"0", "1", "2", "3", "4", "5", "6", "7", "8", "9"}

DigitValue(c) ==
    CASE c = "0" -> 0 [] c = "1" -> 1 [] c = "2" -> 2 [] c = "3" -> 3 [] c = "4" -> 4
      [] c = "5" -> 5 [] c = "6" -> 6 [] c = "7" -> 7 [] c = "8" -> 8 [] c = "9" -> 9

(* the digits of an integer literal: digits with single underscores between them *)
IsLiteral(body) ==
    /\ body # << >>
    /\ \A i \in 1..Len(body) : body[i] \in DigitChars \/ body[i] = "_"
    /\ body[1] # "_" /\ body[Len(body)] # "_"
    /\ \A i \in 1..(Len(body) - 1) : ~(body[i] = "_" /\ body[i + 1] = "_")

RECURSIVE LiteralValue(_)
LiteralValue(body) ==
    IF body = << >> THEN 0
    ELSE LET front == SubSeq(body, 1, Len(body) - 1)
             c == body[Len(body)]
         IN  IF c = "_" THEN LiteralValue(front)
             ELSE 10 * LiteralValue(front) + DigitValue(c)

(* line 1532, int(value): blanks stripped, an optional sign, a literal;     *)
(* None stands for ValueError                                               *)
ParseInt(value) ==
    LET str == Strip(value)
        signed == str # << >> /\ str[1] \in {"+", "-"}
        body == IF signed THEN SubSeq(str, 2, Len(str)) ELSE str
    IN  IF ~IsLiteral(body) THEN None
        ELSE IF signed /\ str[1] = "-" THEN Some(0 - LiteralValue(body))
        ELSE Some(LiteralValue(body))

MinCount == 5
MaxCount == 20

(* a range test without its upper end *)
CountInRange_NoUpper(count) == ~(count < MinCount)

(* line 1533, negated *)
CountInRange(count) == ~(count < MinCount \/ count > MaxCount)

(* Zone names of the tz database (pytz.all_timezones), a sample. *)
KnownZones == { <<"U", "T", "C">>, <<"M", "S", "T">> }

(* lines 142-148: pytz.timezone(value) finds the zone, whatever the case of *)
(* the letters, or raises UnknownTimeZoneError                              *)
is_valid_timezone(timezone_str) ==
    \E zone \in KnownZones : LowerCase(zone) = LowerCase(timezone_str)

(* lines 1563-1566: the channel id of a mention <#id> or of a bare id *)
ChannelId(value) ==
    LET str == Strip(value)
    IN  IF Len(str) >= 3 /\ SubSeq(str, 1, 2) = <<"<", "#">> /\ str[Len(str)] = ">"
        THEN SubSeq(str, 3, Len(str) - 1)
        ELSE str

(* str.isdigit() *)
AllDigits(str) == str # << >> /\ \A i \in 1..Len(str) : str[i] \in DigitChars

(* the row INSERTed for a server that has none (lines 1750-1752, 1681-1683) *)
DefaultRow ==
    [default_count |-> MinCount, timezone |-> <<"U", "T", "C">>, announcement_channel |-> None]

(* update_server_config, lines 1736-1768: UPDATE of one column, or INSERT   *)
(* of the defaults with that column                                         *)
update_server_config(store, server_id, setting, value) ==
    LET row == IF server_id \in DOMAIN store THEN store[server_id] ELSE DefaultRow
        new == CASE setting = "default_count" -> [row EXCEPT !.default_count = value]
                 [] setting = "timezone" -> [row EXCEPT !.timezone = value]
                 [] setting = "announcement_channel" ->
                        [row EXCEPT !.announcement_channel = value]
    IN  [s \in DOMAIN store \cup {server_id} |-> IF s = server_id THEN new ELSE store[s]]

(* The store after update_server_config commits, or raises (sqlite3 error)  *)
(* before its commit; the reply is not sent in the second case.             *)
Updates(server_id, setting, value, reply) ==
    { [store |-> update_server_config(server_configs, server_id, setting, value),
       reply |-> reply],
      [store |-> server_configs, reply |-> "raised"] }

Rejects(reply) == { [store |-> server_configs, reply |-> reply] }

(* lines 1499-1583: what one /config command does to the store and answers *)
ConfigOutcomes(server_id, permitted, setting, value) ==
    IF ~permitted THEN Rejects("no_permission")
    ELSE IF value = None THEN Rejects("shown")
    ELSE IF SettingLower(setting) = "default_count"
         THEN IF ParseInt(value[1]) = None THEN Rejects("not_a_number")
              ELSE IF ~CountInRange(ParseInt(value[1])[1]) THEN Rejects("out_of_range")
              ELSE Updates(server_id, "default_count", ParseInt(value[1])[1], "count_set")
    ELSE IF SettingLower(setting) = "timezone"
         THEN IF ~is_valid_timezone(value[1]) THEN Rejects("invalid_timezone")
              ELSE Updates(server_id, "timezone", value[1], "timezone_set")
    ELSE IF SettingLower(setting) = "announcement_channel"
         THEN IF LowerCase(value[1]) = <<"n", "o", "n", "e">>
              THEN Updates(server_id, "announcement_channel", None, "channel_cleared")
              ELSE IF ~(AllDigits(ChannelId(value[1])) /\ ChannelId(value[1]) \in GuildChannels)
              THEN Rejects("channel_not_found")
              ELSE Updates(server_id, "announcement_channel", Some(ChannelId(value[1])),
                           "channel_set")
    ELSE Rejects("unknown_setting")

server_config ==
    \E server_id \in Servers, permitted \in BOOLEAN, setting \in SettingInputs,
       value \in {None} \cup { Some(v) : v \in ConfigValues } :
       \E outcome \in ConfigOutcomes(server_id, permitted, setting, value) :
          /\ server_configs' = outcome.store
          /\ config_reply' = [setting |-> setting, value |-> value, reply |-> outcome.reply]
          /\ UNCHANGED <<clock, remVars, cacheVars, pureVars, viewVars>>

InitConfig ==
    /\ server_configs = << >>
    /\ config_reply = [setting |-> "", value |-> None, reply |-> ""]

-----------------------------------------------------------------------------
(* format_match_time, lines 187-223: the relative qualifier.  A datetime is *)
(* its wall clock time in seconds and its tzinfo, None (naive) or the UTC   *)
(* offset; `now` is an aware datetime of the target timezone.               *)

(* The instant of the call. *)
FormatNow == [wall |-> 7200, tzinfo |-> Some(7200)]

(* The datetimes a caller passes: None, or a time at a distance from now    *)
(* around each boundary of the qualifier, naive or with an offset.          *)
FormatDistances ==
    {-86400, -3600, -1, 0, 1, 59, 60, 61, 119, 120, 3599, 3600, 3601, 7199, 7200,
     86399, 86400, 86401, 172799, 172800}

FormatInputs ==
    {None}
    \cup { Some([wall |-> d, tzinfo |-> None]) : d \in FormatDistances }
    \cup { Some([wall |-> d + 3600, tzinfo |-> Some(3600)]) : d \in FormatDistances }

(* lines 194-195: a naive datetime is taken as UTC *)
AssumeUTC(dt) == IF dt.tzinfo = None THEN [dt EXCEPT !.tzinfo = Some(0)] ELSE dt

(* line 205: aware - aware is the difference of the instants, in seconds *)
TimeDiff(dt, now) == (dt.wall - dt.tzinfo[1]) - (now.wall - now.tzinfo[1])

(* int(x / d): the quotient cut towards zero *)
IntDiv(x, d) == IF x >= 0 THEN x \div d ELSE 0 - ((0 - x) \div d)

(* lines 189-190 and 208-218 *)
format_match_time(dt, now) ==
    IF dt = None THEN [relative |-> "Time unknown", n |-> 0]
    ELSE LET time_diff == TimeDiff(AssumeUTC(dt[1]), now)
         IN  IF time_diff < 0 THEN [relative |-> "Match has already started", n |-> 0]
             ELSE IF time_diff < 3600
                  THEN [relative |-> "in N minutes", n |-> IntDiv(time_diff, 60)]
             ELSE IF time_diff < 86400
                  THEN [relative |-> "in N hours", n |-> IntDiv(time_diff, 3600)]
             ELSE [relative |-> "in N days", n |-> IntDiv(time_diff, 86400)]

FormatMatchTime ==
    /\ NotApplied
    /\ \E dt \in FormatInputs :
          Apply("format_match_time", dt, format_match_time(dt, FormatNow))

-----------------------------------------------------------------------------
(* parse_match_time, lines 150-185.  Strings are sequences of characters,   *)
(* a datetime is its wall clock time and its tzinfo as above.               *)

(* The time strings of the model. *)
TimeStrings ==
    { <<"i", "n", " ", "2", "h">>,
      <<"i", "n", " ", "4", "5", "m">>,
      <<"i", "n", " ", "3", "d">>,
      <<"I", "n", " ", "2", "H">>,
      <<"i", "n", " ", "1", "0", "m", "i", "n">>,
      <<"i", "n", " ", "2", "w">>,
      <<"i", "n", " ", "4", "5", " ", "m">>,
      <<"i", "n", " ", "h">>,
      <<"i", "n", " ">>,
      <<"8", " ", "i", "n", " ", "p", "m">>,
      <<"b", "e", "g", "i", "n", "s", " ", "i", "n", " ", "2", "h">>,
      <<"1", "8", ":", "0", "0">>,
      <<"1", "8", ":", "0", "0", "Z">>,
      <<"1", "8", ":", "0", "0", "+", "0", "2", ":", "0", "0">>,
      <<"t", "b", "d">>,
      <<>> }

(* The reference timezones a caller passes, and the UTC offset pytz gives   *)
(* the known ones at the instant of the call.                               *)
ServerTimezones == { <<"U", "T", "C">>, <<"M", "S", "T">>, <<"M", "a", "r", "s">> }

ZoneOffset(zone) ==
    CASE LowerCase(zone) = <<"u", "t", "c">> -> 0
      [] LowerCase(zone) = <<"m", "s", "t">> -> -25200

(* The instant of the call (seconds, UTC). *)
ParseInstant == 1000

(* line 161: datetime.now(pytz.timezone(server_timezone)) *)
NowIn(server_timezone) ==
    [wall |-> ParseInstant + ZoneOffset(server_timezone),
     tzinfo |-> Some(ZoneOffset(server_timezone))]

(* line 176, dateutil's parser.parse on the strings of the model that reach *)
(* it: the datetime, or None when it raises ParserError                     *)
ParserResults ==
    { <<<<"1", "8", ":", "0", "0">>, Some([wall |-> 64800, tzinfo |-> None])>>,
      <<<<"1", "8", ":", "0", "0", "Z">>, Some([wall |-> 64800, tzinfo |-> Some(0)])>>,
      <<<<"1", "8", ":", "0", "0", "+", "0", "2", ":", "0", "0">>, Some([wall |-> 64800, tzinfo |-> Some(7200)])>>,
      <<<<"t", "b", "d">>, None>>,
      <<<<>>, None>> }

ParserParse(str) == (CHOOSE row \in ParserResults : row[1] = str)[2]

Letters ==
    {"a", "b", "c", "d", "e", "f", "g", "h", "i", "j", "k", "l", "m", "n", "o", "p", "q",
     "r", "s", "t", "u", "v", "w", "x", "y", "z"}

(* str.replace('in ', '') *)
RECURSIVE RemoveIn(_)
RemoveIn(str) ==
    IF Len(str) < 3 THEN str
    ELSE IF SubSeq(str, 1, 3) = <<"i", "n", " ">> THEN RemoveIn(SubSeq(str, 4, Len(str)))
    ELSE <<Head(str)>> \o RemoveIn(Tail(str))

(* str.split()[0] of a stripped string that is not empty *)
FirstToken(str) ==
    LET ends == { i \in 1..Len(str) : i = Len(str) \/ str[i + 1] = " " }
        n == CHOOSE i \in ends : \A j \in ends : i <= j
    IN  SubSeq(str, 1, n)

(* ''.join(filter(pred, str)) *)
Filter(str, chars) == SelectSeq(str, LAMBDA c : c \in chars)

(* a unit table in which every unit is an hour *)
UnitSeconds_AlwaysHours(unit) == 3600

(* lines 163-171: the length of the unit by its first letter, hours when it *)
(* is none of h, m, d                                                       *)
UnitSeconds(unit) ==
    IF unit # << >> /\ unit[1] = "h" THEN 3600
    ELSE IF unit # << >> /\ unit[1] = "m" THEN 60
    ELSE IF unit # << >> /\ unit[1] = "d" THEN 86400
    ELSE 3600

(* lines 154-182, the body of the try: what it returns, or "raise" *)
ParseBody(time_str, server_timezone) ==
    IF IsSubstring(<<"i", "n", " ">>, LowerCase(time_str))
    THEN LET rest == Strip(RemoveIn(LowerCase(time_str)))
         IN  IF rest = << >> THEN [kind |-> "return", value |-> None]
             ELSE LET digits == Filter(FirstToken(rest), DigitChars)
                      unit == Filter(FirstToken(rest), Letters)
                  IN  IF digits = << >> THEN [kind |-> "raise", value |-> None]
                      ELSE IF ~is_valid_timezone(server_timezone)
                      THEN [kind |-> "raise", value |-> None]
                      ELSE LET now == NowIn(server_timezone)
                           IN  [kind |-> "return",
                                value |-> Some([now EXCEPT !.wall =
                                    @ + LiteralValue(digits) * UnitSeconds(unit)])]
    ELSE IF ParserParse(time_str) = None THEN [kind |-> "raise", value |-> None]
    ELSE [kind |-> "return", value |-> Some(AssumeUTC(ParserParse(time_str)[1]))]

(* lines 152 and 183-185: an exception is logged and None returned *)
parse_match_time(time_str, server_timezone) ==
    IF ParseBody(time_str, server_timezone).kind = "raise" THEN None
    ELSE ParseBody(time_str, server_timezone).value

ParseMatchTime ==
    /\ NotApplied
    /\ \E time_str \in TimeStrings, server_timezone \in ServerTimezones :
          Apply("parse_match_time",
                [time_str |-> time_str, server_timezone |-> server_timezone],
                parse_match_time(time_str, server_timezone))

-----------------------------------------------------------------------------
(* MatchSelectView.select_callback, lines 951-995.                         *)

(* Bound: the selections of one behaviour. *)
MaxSelections == 2

(* The server_configs tables of the model: no row, or the row of guild1    *)
(* with a timezone /config accepts.                                         *)
StoredConfigs ==
    { << >> } \cup
    { [s \in {"guild1"} |-> [DefaultRow EXCEPT !.timezone = zone]] :
        zone \in { z \in ServerTimezones : is_valid_timezone(z) } }

(* get_server_config, lines 1709-1734: the row, or the defaults *)
get_server_config(store, server_id) ==
    IF server_id \in DOMAIN store THEN store[server_id] ELSE DefaultRow

(* datetime.isoformat() as the reminder loop reads it back (fromisoformat): *)
(* the wall clock time and the UTC offset, None for a naive datetime        *)
IsoFormat(dt) ==
    [wall |-> dt.wall, utcoffset |-> IF dt.tzinfo = None THEN None ELSE dt.tzinfo[1]]

NoSelection == [n |-> 0, match_time |-> << >>, server_timezone |-> << >>, reply |-> ""]

(* lines 951-983: the selected match's time is parsed in the server's      *)
(* timezone; None is reported, anything else is stored and confirmed        *)
select_callback ==
    /\ select_reply.n < MaxSelections
    /\ Len(match_reminders) < MaxReminders
    /\ \E match_time \in TimeStrings, server_id \in Servers :
          LET config == get_server_config(server_configs, server_id)
              server_timezone == config.timezone
              parsed_time == parse_match_time(match_time, server_timezone)
              answered(reply) == [n |-> select_reply.n + 1, match_time |-> match_time,
                                  server_timezone |-> server_timezone, reply |-> reply]
          IN  IF parsed_time = None
              THEN /\ select_reply' = answered("Could not parse match time")
                   /\ UNCHANGED <<match_reminders, sent, trouble>>
              ELSE /\ match_reminders' =
                         InsertReminder(match_reminders, IsoFormat(parsed_time[1]), clock)
                   /\ sent' = [i \in 1..Len(match_reminders') |->
                                  IF i <= Len(sent) THEN sent[i] ELSE 0]
                   /\ trouble' = [i \in 1..Len(match_reminders') |->
                                     IF i <= Len(trouble) THEN trouble[i] ELSE "none"]
                   /\ select_reply' = answered("You will be reminded")
    /\ UNCHANGED <<clock, tick_pc, tick_reminders, tick_idx, tick_now, attempted,
                   cacheVars, pureVars, cfgVars, paginator, page_reply>>

-----------------------------------------------------------------------------
(* ResultsPaginator, lines 828-920.                                        *)

(* Bound: the length of the result list a command hands to the view. *)
MaxResults == 11

NoView == [results |-> << >>, current_page |-> -1, results_per_page |-> 0, total_pages |-> -1]
NoPress == [button |-> "", kind |-> "", shown |-> << >>]

(* a page count that rounds down *)
TotalPages_Floor(n, per_page) == n \div per_page

(* line 837: math.ceil(len(results) / self.results_per_page) *)
TotalPages(n, per_page) == IF n % per_page = 0 THEN n \div per_page ELSE n \div per_page + 1

(* lines 916-920: self.results[start_idx:end_idx] *)
get_current_page_results(view) ==
    LET start_idx == view.current_page * view.results_per_page
        end_idx == start_idx + view.results_per_page
        last_idx == IF end_idx < Len(view.results) THEN end_idx ELSE Len(view.results)
    IN  SubSeq(view.results, start_idx + 1, last_idx)

(* lines 829-837: a command builds the view for the list it got; record i   *)
(* of the list is i                                                         *)
ResultsPaginator ==
    /\ \E n \in 0..MaxResults :
          paginator' = [results |-> [i \in 1..n |-> i],
                        current_page |-> 0,
                        results_per_page |-> 5,
                        total_pages |-> TotalPages(n, 5)]
    /\ page_reply' = NoPress
    /\ UNCHANGED <<clock, remVars, cacheVars, pureVars, cfgVars, select_reply>>

(* lines 848-861 *)
previous_button ==
    /\ paginator # NoView
    /\ IF paginator.current_page > 0
       THEN /\ paginator' = [paginator EXCEPT !.current_page = @ - 1]
            /\ page_reply' = [button |-> "previous", kind |-> "edit_message",
                              shown |-> get_current_page_results(paginator')]
       ELSE /\ paginator' = paginator
            /\ page_reply' = [button |-> "previous", kind |-> "defer", shown |-> << >>]
    /\ UNCHANGED <<clock, remVars, cacheVars, pureVars, cfgVars, select_reply>>

(* lines 863-877 *)
next_button ==
    /\ paginator # NoView
    /\ IF paginator.current_page < paginator.total_pages - 1
       THEN /\ paginator' = [paginator EXCEPT !.current_page = @ + 1]
            /\ page_reply' = [button |-> "next", kind |-> "edit_message",
                              shown |-> get_current_page_results(paginator')]
       ELSE /\ paginator' = paginator
            /\ page_reply' = [button |-> "next", kind |-> "defer", shown |-> << >>]
    /\ UNCHANGED <<clock, remVars, cacheVars, pureVars, cfgVars, select_reply>>

InitViews ==
    /\ select_reply = NoSelection
    /\ paginator = NoView
    /\ page_reply = NoPress

-----------------------------------------------------------------------------
InitReminders ==
    /\ match_reminders = << >>
    /\ clock = 0
    /\ tick_pc = "idle"
    /\ tick_reminders = << >>
    /\ tick_idx = 0
    /\ tick_now = 0
    /\ sent = << >>
    /\ attempted = {}
    /\ trouble = << >>

InitPure == applied = NoApplication

Init == InitReminders /\ InitCache /\ InitPure /\ InitConfig /\ InitViews

(* The views are used at the instant ParseInstant, against a configuration  *)
(* table some /config commands left.                                        *)
InitWithConfig ==
    /\ match_reminders = << >>
    /\ clock = ParseInstant
    /\ tick_pc = "idle"
    /\ tick_reminders = << >>
    /\ tick_idx = 0
    /\ tick_now = 0
    /\ sent = << >>
    /\ attempted = {}
    /\ trouble = << >>
    /\ InitCache /\ InitPure /\ InitViews
    /\ config_reply = [setting |-> "", value |-> None, reply |-> ""]
    /\ server_configs \in StoredConfigs

NextReminders ==
    \/ add_match_reminder
    \/ TickStart
    \/ ExamineReminder
    \/ FetchUserReturns
    \/ SendReturns
    \/ Sleep

SpecReminders == Init /\ [][NextReminders]_vars

(* The cache under the bot's commands, with time and overlapping fetches. *)
NextCache ==
    \/ get_valorant_results(CoreArgs, Limits)
    \/ FetchFindsNothing
    \/ FetchStores
    \/ FetchFails(MaxCacheFailures)
    \/ WaitForResponse
    \/ TimePasses

SpecCache == Init /\ [][NextCache]_vars

(* get_valorant_results under every argument shape of its signature, at    *)
(* one instant.                                                             *)
NextSignature ==
    \/ get_valorant_results(SignatureArgs, {MaxLimit})
    \/ FetchFindsNothing
    \/ FetchStores
    \/ FetchFails(MaxCacheFailures)

SpecSignature == Init /\ [][NextSignature]_vars

(* The health counter and the health task, inside one TTL window. *)
NextHealth ==
    \/ get_valorant_results(CoreArgs, Limits)
    \/ FetchFindsNothing
    \/ FetchStores
    \/ FetchFails(MaxFailures)
    \/ health_check_task
    \/ HealthAlertDone

SpecHealth == Init /\ [][NextHealth]_vars

(* The pure functions, applied to bounded inputs. *)
NextPure ==
    \/ MarkTwice
    \/ LocateDocument
    \/ ExtractOneBlock
    \/ ResolveTeam
    \/ ResolveTournament
    \/ ResolveCanonicalKey
    \/ FormatMatchTime
    \/ ParseMatchTime

SpecPure == Init /\ [][NextPure]_vars

(* The /config command on the configuration store. *)
NextConfig == server_config

SpecConfig == Init /\ [][NextConfig]_vars

(* The views of the commands: selections and button presses. *)
NextViews ==
    \/ select_callback
    \/ ResultsPaginator
    \/ previous_button
    \/ next_button

SpecViews == InitWithConfig /\ [][NextViews]_vars

-----------------------------------------------------------------------------
(* Reminder claims                                                         *)

(* Position k of this tick's snapshot has been through the window test. *)
Examined(k) ==
    /\ k \in 1..Len(tick_reminders)
    /\ CASE tick_pc = "loop" -> k < tick_idx
         [] tick_pc \in {"fetch_user", "send"} -> k <= tick_idx
         [] OTHER -> TRUE

DeltaAt(k) ==
    (tick_reminders[k].match_time.wall - tick_reminders[k].match_time.utcoffset) - tick_now

(* C1: at a tick with instant now, a pending reminder is attempted for     *)
(* delivery iff -1800 < matchTime - now <= 900; a reminder outside the     *)
(* window is left pending, its reminded flag unchanged.                    *)
C1_DueWindow ==
    \A k \in 1..Len(tick_reminders) :
        Examined(k) =>
            LET id == tick_reminders[k].id
                inWindow == -1800 < DeltaAt(k) /\ DeltaAt(k) <= 900
            IN  /\ (id \in attempted) <=> inWindow
                /\ ~inWindow => ~match_reminders[id].reminded

(* C1 witness: one tick examined a reminder at delta = 900 and attempted   *)
(* it, and examined one at delta = 1200 and left it pending.               *)
C1_Witness ==
    \E k1, k2 \in 1..Len(tick_reminders) :
        /\ Examined(k1) /\ Examined(k2)
        /\ DeltaAt(k1) = 900 /\ tick_reminders[k1].id \in attempted
        /\ DeltaAt(k2) = 1200 /\ tick_reminders[k2].id \notin attempted
        /\ ~match_reminders[tick_reminders[k2].id].reminded

(* C2: the notification of a reminder id is sent to its channel at most    *)
(* once, whatever the outcomes of send and of the store write.             *)
C2_AtMostOnce ==
    \A id \in 1..Len(sent) : sent[id] <= 1

(* C11: the reminded flag is monotone: a reminder that has reminded = TRUE *)
(* keeps it under every add, tick and mark step, and no row disappears.     *)
C11_RemindedMonotone ==
    [][ \A i \in 1..Len(match_reminders) :
            match_reminders[i].reminded =>
                (i <= Len(match_reminders') /\ match_reminders'[i].reminded) ]_vars

(* C11 witness: reminder 1 is delivered, a reminder was added later, and a  *)
(* later tick is running over the other reminder only.                      *)
C11_Witness ==
    /\ Len(match_reminders) = 2
    /\ match_reminders[1].reminded
    /\ match_reminders[2].created_at > match_reminders[1].created_at
    /\ tick_pc = "loop"
    /\ tick_now > match_reminders[1].created_at
    /\ \A k \in 1..Len(tick_reminders) : tick_reminders[k].id = 2

(* C12: mark_reminder_as_sent twice on one id leaves the store as one call  *)
(* leaves it: that reminder has reminded = TRUE, every other row is as it   *)
(* was.                                                                     *)
C12_MarkIdempotent ==
    applied.fn = "mark_reminder_as_sent" =>
        LET store == applied.input.store
            id == applied.input.id
            once == applied.output.once
            twice == applied.output.twice
        IN  /\ twice = once
            /\ Len(once) = Len(store)
            /\ \A i \in 1..Len(store) :
                  IF i = id THEN once[i] = [store[i] EXCEPT !.reminded = TRUE]
                  ELSE once[i] = store[i]

(* C12 witness: two calls on a pending reminder of a store that also holds  *)
(* another pending reminder.                                                *)
C12_Witness ==
    /\ applied.fn = "mark_reminder_as_sent"
    /\ Len(applied.input.store) = 2
    /\ applied.input.id = 1
    /\ ~applied.input.store[1].reminded
    /\ ~applied.input.store[2].reminded
    /\ applied.output.twice[1].reminded
    /\ ~applied.output.twice[2].reminded

(* C13: when the channel or the user of a due reminder is not found, the    *)
(* reminder is marked delivered in that step with no message sent, and no   *)
(* later tick attempts it again.                                            *)
C13_TargetNotFoundTerminal ==
    [][ \A id \in 1..Len(trouble) :
            /\ (trouble[id] # "target" /\ trouble'[id] = "target") =>
                   (match_reminders'[id].reminded /\ sent'[id] = sent[id])
            /\ trouble[id] = "target" => id \notin (attempted' \ attempted) ]_vars

(* C14: a reminder added while matchTime - now > -1800, whose lookups and   *)
(* sends never failed, is delivered before its window closes: no tick finds *)
(* it still pending at a delta <= -1800 (with a tick every 300 s, "it is    *)
(* eventually sent and marked" fails exactly when such a tick exists); and  *)
(* a reminder is on its way to channel.send only at a tick whose delta is   *)
(* inside the window.                                                       *)
C14_FiresWithinWindow ==
    /\ \A k \in 1..Len(tick_reminders) :
          LET r == tick_reminders[k]
          IN  ( /\ (r.match_time.wall - r.match_time.utcoffset) - r.created_at > -1800
                /\ trouble[r.id] = "none" )
              => DeltaAt(k) > -1800
    /\ tick_pc \in {"fetch_user", "send"} =>
          (-1800 < DeltaAt(tick_idx) /\ DeltaAt(tick_idx) <= 900)

-----------------------------------------------------------------------------
(* Locator claims                                                          *)

(* C15: whenever strategy 1 (the class selector) yields an element, the    *)
(* candidate list is exactly strategy 1's result in document order,         *)
(* whatever strategies 2 and 3 yield on the same document.                  *)
C15_LocatorShortCircuit ==
    (applied.fn = "locate" /\ MatchCards(applied.input) # << >>) =>
        applied.output = MatchCards(applied.input)

(* C15 witness: a document on which all three strategies yield something    *)
(* and strategies 2 and 3 both differ from strategy 1.                      *)
C15_Witness ==
    /\ applied.fn = "locate"
    /\ MatchCards(applied.input) # << >>
    /\ DateHeaderWalk(applied.input) # << >>
    /\ DateHeaderWalk(applied.input) # MatchCards(applied.input)
    /\ UrlPattern(applied.input) # << >>
    /\ UrlPattern(applied.input) # MatchCards(applied.input)
    /\ UrlPattern(applied.input) # DateHeaderWalk(applied.input)

(* C16: the strategies are tried in the order 1, 2, 3 and the first         *)
(* non-empty result is the candidate list: strategy 2's when 1 is empty,    *)
(* strategy 3's only when 1 and 2 are both empty; the list is empty iff     *)
(* all three yield nothing.                                                 *)
C16_LocatorOrder ==
    applied.fn = "locate" =>
        LET s1 == MatchCards(applied.input)
            s2 == DateHeaderWalk(applied.input)
            s3 == UrlPattern(applied.input)
        IN  /\ s1 # << >> => applied.output = s1
            /\ (s1 = << >> /\ s2 # << >>) => applied.output = s2
            /\ (s1 = << >> /\ s2 = << >>) => applied.output = s3
            /\ (applied.output = << >>) <=> (s1 = << >> /\ s2 = << >> /\ s3 = << >>)

(* C16 witness: strategy 1 empty, strategies 2 and 3 non-empty and          *)
(* different: the list is strategy 2's.                                     *)
C16_Witness ==
    /\ applied.fn = "locate"
    /\ MatchCards(applied.input) = << >>
    /\ DateHeaderWalk(applied.input) # << >>
    /\ UrlPattern(applied.input) # << >>
    /\ UrlPattern(applied.input) # DateHeaderWalk(applied.input)
    /\ applied.output = DateHeaderWalk(applied.input)

-----------------------------------------------------------------------------
(* Extraction claims                                                       *)

(* What a pass resolved of a block: pass 1 a field whose slots exist (a    *)
(* score slot with text), pass 2, which runs for the teams and scores when  *)
(* pass 1 left a team unresolved and for the event when pass 1 left the     *)
(* event unresolved, a field its patterns assign.                           *)
ResolvedValues(block) ==
    LET t == block.all_text
        teams1 == Len(block.team_elements) >= 2
        scores1 == Len(block.score_elements) >= 2
        event1 == block.event_element # None
        text2 == Pass2Teams(t, Sentinels)
        event2 == Pass2Event(t, Sentinels)
        Of(resolved, value, sentinel) ==
            IF resolved /\ value # sentinel THEN {value} ELSE {}
    IN  [team1 |-> (IF teams1 THEN {block.team_elements[1]} ELSE {})
                   \cup Of(~teams1, text2.team1, "Unknown"),
         team2 |-> (IF teams1 THEN {block.team_elements[2]} ELSE {})
                   \cup Of(~teams1, text2.team2, "Unknown"),
         score1 |-> Of(scores1 /\ block.score_elements[1] # "", block.score_elements[1], "?")
                    \cup Of(~teams1, text2.score1, "?"),
         score2 |-> Of(scores1 /\ block.score_elements[2] # "", block.score_elements[2], "?")
                    \cup Of(~teams1, text2.score2, "?"),
         event |-> (IF event1 THEN {WithEvent(Sentinels, block.event_element[1]).event_name}
                    ELSE {})
                   \cup Of(~event1, event2.event_name, "Unknown Event")]

SentinelOf ==
    [team1 |-> "Unknown", team2 |-> "Unknown", score1 |-> "?", score2 |-> "?",
     event |-> "Unknown Event"]

(* C17: for every block, whatever slots it lacks, extraction yields a       *)
(* record in which a field that neither pass resolved holds its sentinel    *)
(* ('Unknown', '?', 'Unknown Event') and a field that a pass resolved holds *)
(* a resolved value.                                                        *)
C17_SentinelsForUnresolved ==
    applied.fn = "extract" =>
        LET resolved == ResolvedValues(applied.input.block)
        IN  \A f \in DOMAIN SentinelOf :
                IF resolved[f] = {} THEN applied.output[f] = SentinelOf[f]
                ELSE applied.output[f] \in resolved[f]

-----------------------------------------------------------------------------
(* Cache claims                                                            *)

(* The step is a call of get_valorant_results entering (hit or miss). *)
CallStep == last' # last /\ last'.op \in {"hit", "begin"}

(* The step ends a fetch cycle: the awaited response arrived or raised. *)
CycleEnds == fetching' # fetching /\ last'.op \in {"stored", "empty", "failed"}

Filtered(call) == call.team # "" \/ call.tournament # ""

(* C3: a call is answered from the cache only if the slot of its own       *)
(* dimension was itself filled by a fetch less than 300 s before the call.  *)
C3_PerDimensionTTL ==
    last.op = "hit" =>
        /\ fetched_at[SlotOf(last.call)] # None
        /\ last.call.current_time - fetched_at[SlotOf(last.call)][1] < 300

(* C4: every failed fetch cycle, of whatever kind, is caught: the call     *)
(* returns None and scraping_failures grows by exactly 1.                   *)
C4_FailureCaught ==
    [][ (CycleEnds /\ last'.op = "failed") =>
            /\ last'.ret = RetNone
            /\ scraping_failures' = scraping_failures + 1 ]_vars

(* C5: after any successful fetch, one that found no match element         *)
(* included, scraping_failures is 0 and last_success is recorded.           *)
C5_SuccessResets ==
    last.op \in {"stored", "empty"} =>
        /\ scraping_failures = 0
        /\ last_success = Some(last.call.current_time)

(* C6: a fetch cycle returns None exactly when it failed and a list        *)
(* exactly when the document was fetched; a document without match         *)
(* elements gives the empty list and no increment of scraping_failures.     *)
C6_EmptyVersusFailure ==
    [][ CycleEnds =>
            /\ (last'.ret.kind = "None") <=> (last'.op = "failed")
            /\ (last'.ret.kind = "list") <=> (last'.op \in {"stored", "empty"})
            /\ last'.op = "empty" =>
                  (last'.ret = RetList(<< >>) /\ scraping_failures' = scraping_failures)
            /\ (last'.op = "stored" /\ last'.ret.list = << >>) =>
                  scraping_failures' <= scraping_failures ]_vars

(* C7: a call answered with a list, then the same call (same dimension,    *)
(* same count) with no operation in between, both less than 300 s after    *)
(* the slot was filled: the second is answered from the cache with the     *)
(* identical list.                                                          *)
C7_IdempotentWithinTTL ==
    [][ ( /\ CallStep
          /\ last.op \in {"hit", "stored"}
          /\ SlotOf(last.call) = SlotOf(last'.call)
          /\ last.call.limit = last'.call.limit
          /\ fetched_at[SlotOf(last.call)] # None
          /\ last.call.current_time - fetched_at[SlotOf(last.call)][1] < 300
          /\ clock - fetched_at[SlotOf(last.call)][1] < 300 )
        => (last'.op = "hit" /\ last'.ret = last.ret) ]_vars

C9_AlertAfterFiveFailures ==
    [][ /\ failed_cycles' >= 5 => scraping_failures' >= 5
        /\ (hc_pc = "idle" /\ hc_pc' # "idle") =>
              ((hc_pc' = "alert") <=> (scraping_failures >= 5))
        /\ (CycleEnds /\ last'.op \in {"stored", "empty"}) =>
              scraping_failures' = 0 ]_vars

(* C10: when the health check reaches its probe decision with the counter  *)
(* at 3 or more it starts an actual fetch cycle, below 3 it makes no       *)
(* probe; when the probe's cycle ends the counter is 0 or one higher.       *)
C10_ProbeIsAFetch ==
    [][ /\ (hc_pc \in {"idle", "alert"} /\ hc_pc' \in {"probe", "sleep"}) =>
              IF scraping_failures >= 3
              THEN last'.op = "begin" /\ last'.call.probe
              ELSE last'.op = "no_probe"
        /\ (CycleEnds /\ last'.call.probe) =>
              (scraping_failures' = 0 \/ scraping_failures' = scraping_failures + 1) ]_vars

(* C10: the state in which the probe was answered from the cache *)
C10_ProbeFromCache ==
    /\ last.op = "hit"
    /\ last.call.probe
    /\ scraping_failures >= 3

(* The records of the elements that do not raise, in document order. *)
RECURSIVE RecordsOf(_)
RecordsOf(elements) ==
    IF elements = << >> THEN << >>
    ELSE (IF Head(elements).raises THEN << >> ELSE <<Head(elements).record>>)
         \o RecordsOf(Tail(elements))

-----------------------------------------------------------------------------
(* Resolver claims                                                         *)

(* The tables of the function that was applied. *)
AliasesOf(fn) == IF fn = "resolve_team_name" THEN TEAM_ALIASES ELSE TOURNAMENT_ALIASES
KeysOf(fn) == IF fn = "resolve_team_name" THEN TEAM_COLORS ELSE TOURNAMENT_COLORS

Resolved == applied.fn \in {"resolve_team_name", "resolve_tournament_name"}

(* C19: the steps apply in order and the first that matches decides: (1)   *)
(* the alias of the lowercased input, (2) a canonical key equal to the      *)
(* input or containing it, (3) the best fuzzy match with a score >= 80,     *)
(* (4) the input unchanged; 'c9' gives 'cloud9', 'sentinel' gives           *)
(* 'sentinels', 'xyzzy123' gives 'xyzzy123'; an alias hit wins over a       *)
(* substring hit.                                                           *)
C19_ResolutionOrder ==
    (Resolved /\ applied.input # << >>) =>
        LET lowered == LowerCase(applied.input)
            keys == KeysOf(applied.fn)
            aliased == { entry \in AliasesOf(applied.fn) : entry.alias = lowered }
            containing == { k \in 1..Len(keys) : IsSubstring(lowered, keys[k]) }
            fuzzy == { k \in 1..Len(keys) :
                         /\ FuzzyScore(lowered, keys[k]) >= 80
                         /\ \A j \in 1..Len(keys) :
                               FuzzyScore(lowered, keys[j]) <= FuzzyScore(lowered, keys[k]) }
        IN  /\ IF aliased # {} THEN \E entry \in aliased : applied.output = entry.name
               ELSE IF containing # {} THEN \E k \in containing : applied.output = keys[k]
               ELSE IF fuzzy # {} THEN \E k \in fuzzy : applied.output = keys[k]
               ELSE applied.output = applied.input
            /\ applied.fn = "resolve_team_name" =>
                  /\ applied.input = <<"c", "9">> =>
                        applied.output = <<"c", "l", "o", "u", "d", "9">>
                  /\ applied.input = <<"s", "e", "n", "t", "i", "n", "e", "l">> =>
                        applied.output = <<"s", "e", "n", "t", "i", "n", "e", "l", "s">>
                  /\ applied.input = <<"x", "y", "z", "z", "y", "1", "2", "3">> =>
                        applied.output = applied.input

(* C19 witness: 'sen' is an alias and also a substring of a canonical key;  *)
(* the alias table decided.                                                 *)
C19_Witness ==
    /\ applied.fn = "resolve_team_name"
    /\ applied.input = <<"s", "e", "n">>
    /\ \E entry \in TEAM_ALIASES : entry.alias = applied.input /\ applied.output = entry.name
    /\ \E k \in 1..Len(TEAM_COLORS) : IsSubstring(applied.input, TEAM_COLORS[k])

(* C20: for every input, the empty string included, the result is a value   *)
(* of the alias table, a canonical key, or the input itself; when no step   *)
(* matches it is the input character for character, its case preserved.     *)
C20_ResolutionNeverFails ==
    Resolved =>
        LET keys == KeysOf(applied.fn)
            lowered == LowerCase(applied.input)
            matched ==
                /\ applied.input # << >>
                /\ \/ \E entry \in AliasesOf(applied.fn) : entry.alias = lowered
                   \/ \E k \in 1..Len(keys) : IsSubstring(lowered, keys[k])
                   \/ \E k \in 1..Len(keys) : FuzzyScore(lowered, keys[k]) >= 80
        IN  /\ \/ \E entry \in AliasesOf(applied.fn) : applied.output = entry.name
               \/ \E k \in 1..Len(keys) : applied.output = keys[k]
               \/ applied.output = applied.input
            /\ ~matched => applied.output = applied.input

(* C20 witness: an input in capitals that no step matches comes back in     *)
(* capitals.                                                                *)
C20_Witness ==
    /\ applied.fn = "resolve_team_name"
    /\ applied.input = <<"X", "Y", "Z", "Z", "Y", "1", "2", "3">>
    /\ applied.output = applied.input
    /\ LowerCase(applied.input) # applied.input

-----------------------------------------------------------------------------
(* Configuration claims                                                    *)

SettingNames == {"default_count", "timezone", "announcement_channel"}

(* A command whose value is not acceptable for its setting, or whose        *)
(* setting does not exist.                                                  *)
InvalidCommand(setting, value) ==
    \/ SettingLower(setting) \notin SettingNames
    \/ /\ SettingLower(setting) = "default_count"
       /\ \/ ParseInt(value) = None
          \/ ParseInt(value)[1] \notin 5..20
    \/ /\ SettingLower(setting) = "timezone"
       /\ ~is_valid_timezone(value)

Rejections ==
    {"no_permission", "not_a_number", "out_of_range", "invalid_timezone", "unknown_setting"}

(* C21: after every /config command each stored row has default_count an   *)
(* integer in 5..20 and a timezone the zone database recognizes; a command  *)
(* with a non-integer or out-of-range count, an unrecognized timezone or an *)
(* unknown setting name is answered with a rejection and leaves the store   *)
(* as it was.                                                               *)
C21_ConfigValidated ==
    /\ [](\A s \in DOMAIN server_configs :
              /\ server_configs[s].default_count \in 5..20
              /\ is_valid_timezone(server_configs[s].timezone))
    /\ [][ (config_reply'.reply \notin Rejections \/ server_configs' # server_configs)
              => ~(/\ config_reply'.value # None
                   /\ InvalidCommand(config_reply'.setting, config_reply'.value[1])) ]_vars

(* An out-of-range count was rejected while both servers hold rows set by   *)
(* earlier commands.                                                        *)
C21_Witness ==
    /\ config_reply.reply = "out_of_range"
    /\ config_reply.value = Some(<<"2", "1">>)
    /\ DOMAIN server_configs = Servers
    /\ server_configs["guild1"].default_count = 20
    /\ server_configs["guild2"].default_count = 10
    /\ server_configs["guild2"].timezone = <<"u", "t", "c">>

-----------------------------------------------------------------------------
(* Overlapping fetches                                                     *)

(* What the cache holds for a dimension: None, or the stored list. *)
SlotValue(slot) ==
    CASE slot[1] = "tournament" ->
            IF slot[2] \in DOMAIN tournament_data THEN Some(tournament_data[slot[2]]) ELSE None
      [] slot[1] = "team" ->
            IF slot[2] \in DOMAIN team_data THEN Some(team_data[slot[2]]) ELSE None
      [] slot[1] = "upcoming" -> upcoming_data
      [] OTHER -> recent_data

(* Two fetches of one dimension overlapped and this step ends the second:   *)
(* the first ended with a list and no call has begun since, so the second   *)
(* was suspended at its request when the first ended.                       *)
SecondOfTwoEnds ==
    /\ last.op \in {"stored", "empty"}
    /\ CycleEnds
    /\ last'.op \in {"stored", "empty"}
    /\ SlotOf(last.call) = SlotOf(last'.call)

(* C22: when two fetches for the same dimension overlap and both succeed,   *)
(* the slot of the dimension afterwards holds exactly the list of the fetch *)
(* that finished last.                                                      *)
C22_LastWriterWins ==
    [][ SecondOfTwoEnds =>
            \A slot \in Slots :
                slot = SlotOf(last'.call) => SlotValue(slot)' = Some(last'.ret.list) ]_vars

(* C22, for the fetches that reach the cache write (lines 513-549): the     *)
(* slot is replaced as a whole by the list of the fetch that ends.          *)
C22_StoreReplacesSlot ==
    [][ (SecondOfTwoEnds /\ last'.op = "stored") =>
            \A slot \in Slots :
                slot = SlotOf(last'.call) => SlotValue(slot)' = Some(last'.ret.list) ]_vars

-----------------------------------------------------------------------------
(* The scheduler and concurrent adds                                       *)

Running == {"loop", "fetch_user", "send"}

(* How far the for loop of the tick has come. *)
TickPosition ==
    3 * tick_idx + (CASE tick_pc = "loop" -> 0 [] tick_pc = "fetch_user" -> 1 [] OTHER -> 2)

SnapshotIdsDistinct ==
    \A i, j \in 1..Len(tick_reminders) :
        i # j => tick_reminders[i].id # tick_reminders[j].id

(* C23: within one tick each pending id is processed at most once (the     *)
(* snapshot holds no id twice and the loop only moves forward through it;   *)
(* a send is for the snapshot's current id and counts once); an            *)
(* add_match_reminder at any point of a running tick changes neither the    *)
(* snapshot nor an existing row nor a send count, the new row is pending,   *)
(* stays pending until a tick has it in its snapshot, and the next tick's   *)
(* snapshot holds every pending row and is walked to its end.               *)
C23_TickAndAddInterleave ==
    /\ []SnapshotIdsDistinct
    /\ [][ /\ (tick_pc \in Running /\ tick_pc' \in Running
                 /\ <<tick_pc, tick_idx>>' # <<tick_pc, tick_idx>>)
              => (TickPosition' > TickPosition /\ tick_reminders' = tick_reminders)
           /\ \A id \in 1..Len(sent) :
                 sent'[id] # sent[id] =>
                    /\ sent'[id] = sent[id] + 1
                    /\ tick_pc = "send"
                    /\ tick_reminders[tick_idx].id = id
           /\ \A id \in 1..Len(match_reminders) :
                 match_reminders'[id].reminded # match_reminders[id].reminded =>
                    /\ tick_pc \in Running
                    /\ tick_reminders[tick_idx].id = id
           /\ Len(match_reminders') # Len(match_reminders) =>
                 /\ Len(match_reminders') = Len(match_reminders) + 1
                 /\ SubSeq(match_reminders', 1, Len(match_reminders)) = match_reminders
                 /\ SubSeq(sent', 1, Len(sent)) = sent
                 /\ ~match_reminders'[Len(match_reminders')].reminded
                 /\ UNCHANGED <<tick_pc, tick_idx, tick_reminders, tick_now, attempted>>
           /\ (tick_pc = "idle" /\ tick_pc' # "idle") =>
                 \A i \in 1..Len(match_reminders) :
                    ~match_reminders[i].reminded =>
                       \E k \in 1..Len(tick_reminders') : tick_reminders'[k] = match_reminders[i]
           /\ (tick_pc \in Running /\ tick_pc' = "sleep") =>
                 \A k \in 1..Len(tick_reminders) :
                    DueForDelivery(DeltaAt(k)) => tick_reminders[k].id \in attempted'
       ]_vars

(* A reminder was added while the tick was suspended at channel.send for    *)
(* another one: the store holds a pending row the snapshot does not.        *)
C23_Witness ==
    /\ tick_pc = "send"
    /\ Len(tick_reminders) = 1
    /\ Len(match_reminders) = 2
    /\ ~match_reminders[2].reminded
    /\ match_reminders[2].created_at = tick_now
    /\ sent = <<0, 0>>

(* The ids the store holds. *)
StoredIds == { match_reminders[i].id : i \in 1..Len(match_reminders) }

(* C24: an added reminder gets an id greater than every id assigned        *)
(* before and starts with reminded = false; no step removes a reminder:     *)
(* the set of stored ids only grows.                                        *)
C24_IdsGrowOnly ==
    [][ /\ StoredIds \subseteq StoredIds'
        /\ Len(match_reminders') >= Len(match_reminders)
        /\ Len(match_reminders') > Len(match_reminders) =>
              LET new == match_reminders'[Len(match_reminders')]
              IN  /\ \A id \in StoredIds : new.id > id
                  /\ new.reminded = FALSE
                  /\ StoredIds' = StoredIds \cup {new.id} ]_vars

(* Two reminders were added, the first was delivered and marked and is     *)
(* still in the store.                                                      *)
C24_Witness ==
    /\ Len(match_reminders) = 2
    /\ match_reminders[1].reminded
    /\ sent[1] = 1
    /\ ~match_reminders[2].reminded
    /\ match_reminders[2].id > match_reminders[1].id
    /\ match_reminders[2].created_at > match_reminders[1].created_at

-----------------------------------------------------------------------------
(* Time formatting and parsing                                             *)

(* matchTime - now of the application of format_match_time, in seconds *)
FormatDelta ==
    LET dt == applied.input[1]
    IN  (dt.wall - (IF dt.tzinfo = None THEN 0 ELSE dt.tzinfo[1]))
        - (FormatNow.wall - FormatNow.tzinfo[1])

Formatted == applied.fn = "format_match_time" /\ applied.input # None

(* C25: format_match_time appends 'already started' for every delta <= 0,  *)
(* delta = 0 included, 'in N minutes' with N = floor(delta/60) for          *)
(* 0 < delta < 3600, 'in N hours' with N = floor(delta/3600) for            *)
(* 3600 <= delta < 86400 and 'in N days' with N = floor(delta/86400) from   *)
(* 86400 on.                                                                *)
C25_RelativeQualifier ==
    Formatted =>
        /\ FormatDelta <= 0 => applied.output.relative = "Match has already started"
        /\ (0 < FormatDelta /\ FormatDelta < 3600) =>
              applied.output = [relative |-> "in N minutes", n |-> FormatDelta \div 60]
        /\ (3600 <= FormatDelta /\ FormatDelta < 86400) =>
              applied.output = [relative |-> "in N hours", n |-> FormatDelta \div 3600]
        /\ FormatDelta >= 86400 =>
              applied.output = [relative |-> "in N days", n |-> FormatDelta \div 86400]

(* C25 away from delta = 0: the qualifier is as stated for every other delta *)
C25_ExceptAtZero == (Formatted /\ FormatDelta = 0) \/ C25_RelativeQualifier

Parsed == applied.fn = "parse_match_time"

(* The instant of a datetime, a naive one read as UTC. *)
InstantOf(dt) == dt.wall - (IF dt.tzinfo = None THEN 0 ELSE dt.tzinfo[1])

(* The string is 'in N<unit>': "in ", then k digits, then letters. *)
RelativeSplit(str) ==
    LET low == LowerCase(str)
    IN  { k \in 1..(Len(low) - 4) :
            /\ SubSeq(low, 1, 3) = <<"i", "n", " ">>
            /\ \A i \in 4..(3 + k) : low[i] \in DigitChars
            /\ \A i \in (4 + k)..Len(low) : low[i] \in Letters }

(* C26: 'in N<unit>' gives now + N hours, minutes or days by the first     *)
(* letter of the unit (h, m, d), now being the instant of the call in the   *)
(* reference timezone; an absolute string gives the instant the parser      *)
(* reads, taken as UTC when it has no timezone; whatever is returned is     *)
(* None or an aware datetime, and a string that is neither a relative       *)
(* phrase nor readable by the parser gives None.                            *)
C26_ParseMatchTime ==
    Parsed =>
        LET str == applied.input.time_str
            zone == applied.input.server_timezone
            out == applied.output
            relative == IsSubstring(<<"i", "n", " ">>, LowerCase(str))
        IN  /\ out # None => out[1].tzinfo # None
            /\ (RelativeSplit(str) # {} /\ is_valid_timezone(zone)) =>
                  LET k == CHOOSE k \in RelativeSplit(str) : TRUE
                      low == LowerCase(str)
                      N == LiteralValue(SubSeq(low, 4, 3 + k))
                      letter == low[4 + k]
                  IN  /\ out # None
                      /\ out[1].tzinfo = Some(ZoneOffset(zone))
                      /\ letter = "h" => InstantOf(out[1]) = ParseInstant + N * 3600
                      /\ letter = "m" => InstantOf(out[1]) = ParseInstant + N * 60
                      /\ letter = "d" => InstantOf(out[1]) = ParseInstant + N * 86400
            /\ (~relative /\ ParserParse(str) # None) =>
                  /\ out # None
                  /\ InstantOf(out[1]) = InstantOf(ParserParse(str)[1])
            /\ (Filter(str, DigitChars) = << >> /\ (relative \/ ParserParse(str) = None)) =>
                  out = None

(* 'in 45m' was parsed in a timezone seven hours behind UTC. *)
C26_Witness ==
    /\ Parsed
    /\ applied.input.time_str = <<"i", "n", " ", "4", "5", "m">>
    /\ applied.input.server_timezone = <<"M", "S", "T">>
    /\ applied.output = Some([wall |-> ParseInstant - 25200 + 2700, tzinfo |-> Some(-25200)])

-----------------------------------------------------------------------------
(* The two passes of the extraction                                        *)

TeamAndScoreFields == {"team1", "team2", "score1", "score2"}

(* C27: pass 2 assigns only fields that pass 1 left at their sentinel: a   *)
(* team name or score that pass 1 took from the structured slots is in the  *)
(* record unchanged, and a team name or score that pass 1 left unresolved   *)
(* and the flattened text resolves (scores also when both team slots        *)
(* resolved) is in the record as the text gives it.                         *)
C27_Pass2OnlyFillsGaps ==
    applied.fn = "extract" =>
        LET block == applied.input.block
            pass1 == Pass1(block, applied.input.upcoming)
            text == Pass2Teams(block.all_text, Sentinels)
        IN  \A f \in TeamAndScoreFields :
                /\ pass1[f] # Sentinels[f] => applied.output[f] = pass1[f]
                /\ (pass1[f] = Sentinels[f] /\ text[f] # Sentinels[f]) =>
                      applied.output[f] = text[f]

(* C27, first half alone: no field pass 1 resolved is changed by pass 2 *)
C27_NeverOverwritten ==
    applied.fn = "extract" =>
        LET pass1 == Pass1(applied.input.block, applied.input.upcoming)
        IN  \A f \in TeamAndScoreFields :
                pass1[f] # Sentinels[f] => applied.output[f] = pass1[f]

(* C27, second half alone: what pass 1 left unresolved pass 2 fills *)
C27_GapsAttempted ==
    applied.fn = "extract" =>
        LET block == applied.input.block
            pass1 == Pass1(block, applied.input.upcoming)
            text == Pass2Teams(block.all_text, Sentinels)
        IN  \A f \in TeamAndScoreFields :
                (pass1[f] = Sentinels[f] /\ text[f] # Sentinels[f]) =>
                    applied.output[f] = text[f]

-----------------------------------------------------------------------------
(* C28: resolving a canonical key of TEAM_COLORS or TOURNAMENT_COLORS      *)
(* returns the key itself: an exact match is not displaced by another key   *)
(* that contains it.                                                        *)
C28_ExactCanonicalMatch ==
    (Resolved /\ \E k \in 1..Len(KeysOf(applied.fn)) : KeysOf(applied.fn)[k] = applied.input)
        => applied.output = applied.input

-----------------------------------------------------------------------------
(* C29: a failed fetch cycle leaves recent_data, upcoming_data, team_data, *)
(* tournament_data, timestamp and last_success as they were, so every call  *)
(* the cache answered before the failure it answers the same afterwards.    *)
C29_FailureChangesOnlyCounter ==
    [][ (CycleEnds /\ last'.op = "failed") =>
            /\ UNCHANGED <<recent_data, upcoming_data, team_data, tournament_data,
                           timestamp, last_success>>
            /\ \A args \in SignatureArgs, limit \in Limits :
                  CacheLookup(args, limit, clock)' = CacheLookup(args, limit, clock) ]_vars

(* A fetch for one dimension failed while the cache held a fresh list of    *)
(* another, which it still serves.                                          *)
C29_Witness ==
    /\ last.op = "failed"
    /\ recent_data # None
    /\ recent_data[1] # << >>
    /\ CacheLookup(RecentArgs, MaxLimit, clock) = Some(Slice(recent_data[1], MaxLimit))
    /\ scraping_failures > 0

-----------------------------------------------------------------------------
(* Lengths of the returned lists                                           *)

IsPrefix(a, b) == Len(a) <= Len(b) /\ \A i \in 1..Len(a) : a[i] = b[i]

(* C30: every list get_valorant_results returns, from the cache or from a  *)
(* fetch, has at most `limit` records, and a list returned from the cache   *)
(* is a prefix of the list stored in the slot of the call.                  *)
C30_AtMostLimit ==
    /\ last.ret.kind = "list" => Len(last.ret.list) <= last.call.limit
    /\ last.op = "hit" =>
          /\ SlotValue(SlotOf(last.call)) # None
          /\ IsPrefix(last.ret.list, SlotValue(SlotOf(last.call))[1])

(* A call with limit 1 was answered from a stored list of two records. *)
C30_Witness ==
    /\ last.op = "hit"
    /\ last.call.limit = 1
    /\ Len(last.ret.list) = 1
    /\ Len(SlotValue(SlotOf(last.call))[1]) = 2

-----------------------------------------------------------------------------
(* Cache hits against fetches                                              *)

(* A fetch stored the list of a dimension and the next operation of the     *)
(* cache is a call of that dimension answered from it.                      *)
HitAfterStore ==
    /\ last.op = "stored"
    /\ last'.op = "hit"
    /\ SlotOf(last'.call) = SlotOf(last.call)

(* C31: a cache hit returns what a fetch of the unchanged document with the *)
(* hit's own count would return, whatever count the call that filled the    *)
(* cache used.                                                              *)
C31_HitEqualsFetch ==
    [][ HitAfterStore => last'.ret.list = FilteredResults(last'.call, last.doc) ]_vars

-----------------------------------------------------------------------------
(* The freshness clock                                                     *)

NotBefore(old, new) == old = None \/ (new # None /\ new[1] >= old[1])

(* C32: timestamp and last_success never move backwards, also when fetches *)
(* overlap: a fetch that started earlier and finishes later does not leave  *)
(* timestamp older than what an overlapping fetch wrote.                    *)
C32_TimestampMonotone ==
    [][ NotBefore(timestamp, timestamp') /\ NotBefore(last_success, last_success') ]_vars

-----------------------------------------------------------------------------
(* The failure counter                                                     *)

(* A call was answered from the cache in this step. *)
AnsweredFromCache == last' # last /\ last'.op = "hit"

(* C33: scraping_failures is never negative and equals the number of       *)
(* failed fetch cycles since the most recent successful one (or since the   *)
(* start); a call answered from the cache starts no fetch and changes       *)
(* neither scraping_failures, last_success, timestamp nor any slot.         *)
C33_CounterCountsFailures ==
    /\ [](scraping_failures >= 0 /\ scraping_failures = failed_cycles)
    /\ [][ AnsweredFromCache =>
              UNCHANGED <<fetching, scraping_failures, last_success, timestamp,
                          recent_data, upcoming_data, team_data, tournament_data>> ]_vars

-----------------------------------------------------------------------------
(* Exceptions in the reminder loop                                         *)

(* The except clause of line 787 ran in this step: bot.fetch_user raised,   *)
(* or channel.send raised (nothing was sent), and the store was not written *)
ProcessingRaised ==
    /\ tick_pc' \in {"loop", "sleep"}
    /\ \/ tick_pc = "fetch_user" /\ match_reminders' = match_reminders
       \/ tick_pc = "send" /\ sent' = sent

(* C34: an exception while one due reminder is processed is confined to    *)
(* that reminder: its row stays pending, the loop goes on with the next row *)
(* of the snapshot, every due row of the snapshot is attempted before the   *)
(* tick ends, and the next tick's snapshot holds the reminder again.        *)
C34_ExceptionConfined ==
    [][ /\ ProcessingRaised =>
              /\ match_reminders' = match_reminders
              /\ ~match_reminders'[tick_reminders[tick_idx].id].reminded
              /\ trouble'[tick_reminders[tick_idx].id] # "none"
              /\ tick_reminders' = tick_reminders
              /\ IF tick_idx < Len(tick_reminders)
                 THEN tick_pc' = "loop" /\ tick_idx' = tick_idx + 1
                 ELSE tick_pc' = "sleep"
        /\ (tick_pc \in Running /\ tick_pc' = "sleep") =>
              \A k \in 1..Len(tick_reminders) :
                 (k # tick_idx /\ DueForDelivery(DeltaAt(k))) =>
                    tick_reminders[k].id \in attempted
        /\ (tick_pc = "idle" /\ tick_pc' # "idle") =>
              \A id \in 1..Len(match_reminders) :
                 (trouble[id] # "none" /\ ~match_reminders[id].reminded) =>
                    \E k \in 1..Len(tick_reminders') : tick_reminders'[k].id = id
      ]_vars

(* The send for reminder 1 raised, reminder 2 of the same snapshot was sent *)
(* afterwards, and the next tick has taken reminder 1 into its snapshot.    *)
C34_Witness ==
    /\ Len(match_reminders) = 2
    /\ trouble[1] = "other"
    /\ sent = <<0, 1>>
    /\ ~match_reminders[1].reminded
    /\ match_reminders[2].reminded
    /\ tick_pc = "loop"
    /\ tick_reminders = <<match_reminders[1]>>

-----------------------------------------------------------------------------
(* Selecting a match to be reminded about                                  *)

(* select_callback ran in this step. *)
Selected == select_reply'.n # select_reply.n

(* What parse_match_time gives for the selection just answered. *)
ParsedSelection ==
    parse_match_time(select_reply'.match_time, select_reply'.server_timezone)

(* C35: a reminder is stored only for a match whose time parsed: when      *)
(* parse_match_time returns None, select_callback adds no row and reports   *)
(* the failure; otherwise it adds exactly one row, with the parsed          *)
(* timezone-aware instant and reminded = false.                             *)
C35_StoredOnlyWhenParsed ==
    [][ /\ match_reminders' # match_reminders => (Selected /\ ParsedSelection # None)
        /\ Selected =>
              IF ParsedSelection = None
              THEN /\ match_reminders' = match_reminders
                   /\ select_reply'.reply = "Could not parse match time"
              ELSE /\ Len(match_reminders') = Len(match_reminders) + 1
                   /\ SubSeq(match_reminders', 1, Len(match_reminders)) = match_reminders
                   /\ LET row == match_reminders'[Len(match_reminders')]
                          parsed == ParsedSelection[1]
                      IN  /\ ~row.reminded
                          /\ parsed.tzinfo # None
                          /\ row.match_time.utcoffset = parsed.tzinfo[1]
                          /\ TimeUntilMatch(row.match_time, 0) = TimeDiff(parsed, AssumeUTC([wall |-> 0, tzinfo |-> None]))
                   /\ select_reply'.reply = "You will be reminded"
      ]_vars

(* One selection was stored (a relative time in the server's zone, MST) and *)
(* the next one, whose time did not parse, was reported and not stored.     *)
C35_Witness ==
    /\ select_reply.n = 2
    /\ select_reply.reply = "Could not parse match time"
    /\ Len(match_reminders) = 1
    /\ match_reminders[1].match_time.utcoffset = -25200
    /\ ~match_reminders[1].reminded

-----------------------------------------------------------------------------
(* The last resort of the locator                                          *)

(* The strings of the model that hold at least one digit. *)
HasDigit(str) == str \in {"1", "2", "123", "456", "12345", "abc1"}

(* The links whose path has a segment with at least one digit. *)
DigitSegmentLinks(doc) ==
    SelectSeq(doc, LAMBDA n :
        /\ n.name = "a"
        /\ n.href.rooted
        /\ \E s \in 1..Len(n.href.segs) :
              \E x \in 1..Len(n.href.segs[s]) : HasDigit(n.href.segs[s][x]))

(* C36: when strategies 1 and 2 yield nothing, strategy 3 selects exactly  *)
(* the links whose path has a segment with at least one digit, '/abc1/x'    *)
(* and '/team/12345' included, and no other link.                           *)
C36_DigitSegmentSelected ==
    ( /\ applied.fn = "locate"
      /\ MatchCards(applied.input) = << >>
      /\ DateHeaderWalk(applied.input) = << >> )
        => applied.output = DigitSegmentLinks(applied.input)

-----------------------------------------------------------------------------
(* Paging                                                                  *)

(* The pages 0 .. up_to - 1 of a view, one after the other. *)
RECURSIVE PagesUpTo(_, _)
PagesUpTo(view, up_to) ==
    IF up_to <= 0 THEN << >>
    ELSE PagesUpTo(view, up_to - 1)
         \o get_current_page_results([view EXCEPT !.current_page = up_to - 1])

LastPage(view) == IF view.total_pages - 1 > 0 THEN view.total_pages - 1 ELSE 0

(* A button was pressed in this step (a press that is deferred twice in a   *)
(* row shows as one).                                                       *)
Pressed(button) == page_reply' # page_reply /\ page_reply'.button = button

(* C37: 0 <= current_page <= max(total_pages - 1, 0) under any sequence of *)
(* Previous and Next presses, Previous on the first page and Next on the    *)
(* last page change nothing, total_pages = ceil(len(results) / 5), and the  *)
(* pages 0 .. total_pages - 1 concatenate to the result list.               *)
C37_PaginatorBounds ==
    /\ [](paginator # NoView =>
            /\ 0 <= paginator.current_page
            /\ paginator.current_page <= LastPage(paginator)
            /\ 5 * paginator.total_pages >= Len(paginator.results)
            /\ 5 * paginator.total_pages < Len(paginator.results) + 5
            /\ PagesUpTo(paginator, paginator.total_pages) = paginator.results)
    /\ [][ /\ (Pressed("previous") /\ paginator.current_page = 0) => paginator' = paginator
           /\ (Pressed("next") /\ paginator.current_page = LastPage(paginator)) =>
                 paginator' = paginator
           /\ (Pressed("previous") /\ paginator.current_page > 0) =>
                 paginator' = [paginator EXCEPT !.current_page = @ - 1]
           /\ (Pressed("next") /\ paginator.current_page < LastPage(paginator)) =>
                 paginator' = [paginator EXCEPT !.current_page = @ + 1] ]_vars

(* Eleven results on three pages: Next was pressed on the last page, which  *)
(* holds the one remaining record, and nothing changed.                     *)
C37_Witness ==
    /\ Len(paginator.results) = 11
    /\ paginator.total_pages = 3
    /\ paginator.current_page = 2
    /\ get_current_page_results(paginator) = <<11>>
    /\ page_reply = [button |-> "next", kind |-> "defer", shown |-> << >>]
====
